---- MODULE Spec2Model ----
(***************************************************************************)
(* Model of the tabular dataset core of go-boiler-lib                      *)
(* (pkg/platform/datamanagement/dataframe.go).                             *)
(*                                                                         *)
(* A string is a sequence of one-character strings, so that ToLower,       *)
(* ReplaceAll, Split, Contains, Trim and EqualFold are computed.  A Record *)
(* ([]string) is a sequence of strings.  Go slices of cells are reference  *)
(* values: the model keeps every record's cells in `heap` and a dataset's  *)
(* Rows as a sequence of references into it.                               *)
(***************************************************************************)
EXTENDS Integers, Sequences, FiniteSets, TLC

VARIABLES
    heap,      \* storage of every live record: reference -> sequence of cells
    d,         \* the dataset under test: [Columns, Rows, CleanerFunc]
    got,       \* the dataset returned by the last Get: [Columns, Rows]
    held,      \* records the caller passed in by the last call (references)
    pc,        \* "new" | "ready" | "failed" | "panicked"
    last,      \* the last call: its name, arguments and outcome
    nops,      \* number of calls made on the dataset since construction
    files,     \* NewDataframeFromFiles: the files named by filePaths
    fidx,      \* recordsFromFiles: loop index (1-based)
    fpc,       \* recordsFromFiles: "idle" | "open" | "read" | "opts" | "done"
    head,      \* recordsFromFiles: the established header
    headSet,   \* recordsFromFiles: head != nil
    handles,   \* sources opened by grate.Open and not closed
    frows,     \* recordsFromFiles: d.Rows while loading (values)
    fnote,     \* observations of the load: per appended row its file, files compared
    store,     \* a SimpleStore[K, T]: the map
    db,        \* a Database: whether it exists, and its prepared statements by key
    logger,    \* a Logger: slogger, config, mu, and the goroutines calling it
    ff         \* a FileFilter, and the directories it looks at

fileVars == <<files, fidx, fpc, head, headSet, handles, frows, fnote>>
coreVars == <<heap, d, got, held, pc, nops>>
sysVars == <<store, db, logger, ff>>
vars == <<heap, d, got, held, pc, last, nops,
          files, fidx, fpc, head, headSet, handles, frows, fnote,
          store, db, logger, ff>>

(***************************************************************************)
(* Bounds of the model.                                                    *)
(***************************************************************************)
MaxOps == 1        \* calls on the dataset after construction
MaxOpts == 2       \* options passed to a constructor
MaxFiles == 2      \* file paths passed to NewDataframeFromFiles
MaxCalls == 2      \* calls of Filter on one FileFilter
MaxData == 4       \* characters of the data of a ByteDefinition built step by step

(***************************************************************************)
(* Strings.                                                                *)
(***************************************************************************)
\* unicode.ToLower on the characters the model uses
LowerChar(c) ==
    CASE c = "A" -> "a"
      [] c = "B" -> "b"
      [] c = "D" -> "d"
      [] c = "T" -> "t"
      [] c = "E" -> "e"
      [] c = "N" -> "n"
      [] c = "S" -> "s"
      [] OTHER -> c

\* s with its first character in upper case
UpperChar(c) ==
    CASE c = "a" -> "A"
      [] c = "b" -> "B"
      [] c = "d" -> "D"
      [] c = "t" -> "T"
      [] c = "e" -> "E"
      [] c = "n" -> "N"
      [] c = "s" -> "S"
      [] OTHER -> c

Capitalized(s) == [i \in 1..Len(s) |-> IF i = 1 THEN UpperChar(s[i]) ELSE s[i]]

\* strings.ToLower
ToLower(s) == [i \in 1..Len(s) |-> LowerChar(s[i])]

\* strings.ReplaceAll(s, " ", "")
RemoveSpaces(s) == SelectSeq(s, LAMBDA c : c # " ")

\* strings.EqualFold
EqualFold(s, t) == ToLower(s) = ToLower(t)

\* strings.Contains(s, ",")
ContainsComma(s) == \E i \in 1..Len(s) : s[i] = ","

\* whether sep occurs in s at position i
MatchAt(s, sep, i) ==
    /\ i + Len(sep) - 1 <= Len(s)
    /\ \A k \in 1..Len(sep) : s[i + k - 1] = sep[k]

\* bytes.Index, 1-based; 0 when sep does not occur
IndexOf(s, sep) ==
    IF \E i \in 1..Len(s) : MatchAt(s, sep, i)
    THEN CHOOSE i \in 1..Len(s) :
            /\ MatchAt(s, sep, i)
            /\ \A j \in 1..(i - 1) : ~MatchAt(s, sep, j)
    ELSE 0

RECURSIVE SplitNonEmptySep(_, _)
SplitNonEmptySep(s, sep) ==
    LET m == IndexOf(s, sep)
    IN  IF m = 0
        THEN <<s>>
        ELSE <<SubSeq(s, 1, m - 1)>>
                 \o SplitNonEmptySep(SubSeq(s, m + Len(sep), Len(s)), sep)

\* bytes.Split / strings.Split: an empty separator explodes s into characters
Split(s, sep) ==
    IF Len(sep) = 0
    THEN [i \in 1..Len(s) |-> <<s[i]>>]
    ELSE SplitNonEmptySep(s, sep)

CutSet == {" ", "+", "-"}

RECURSIVE TrimLeft(_)
TrimLeft(s) ==
    IF Len(s) > 0 /\ Head(s) \in CutSet THEN TrimLeft(Tail(s)) ELSE s

RECURSIVE TrimRight(_)
TrimRight(s) ==
    IF Len(s) > 0 /\ s[Len(s)] \in CutSet
    THEN TrimRight(SubSeq(s, 1, Len(s) - 1))
    ELSE s

\* strings.Trim(s, " +-")
Trim(s) == TrimRight(TrimLeft(s))

(***************************************************************************)
(* Row normalizers (the caller's CleanerFunc).  "nil" is no function.      *)
(* "identity" returns its argument (the same slice).  "cleanRecord" is the *)
(* normalizer kept in the source: a new record of the non-empty cells,     *)
(* each trimmed of " +-".                                                  *)
(***************************************************************************)
cleanRecord(r) ==
    LET kept == SelectSeq(r, LAMBDA c : Len(c) > 0)
    IN  [i \in 1..Len(kept) |-> Trim(kept[i])]

\* the value CleanerFunc(r) returns
CleanerFunc(kind, r) ==
    IF kind = "cleanRecord" THEN cleanRecord(r) ELSE r

(***************************************************************************)
(* Records on the heap.  References are positions of `heap`; after every   *)
(* call the heap keeps only the records still referenced, numbered in the  *)
(* order d.Rows, got.Rows, held reach them.                                *)
(***************************************************************************)
\* the cells of every row, in order
RowValues(h, rows) == [i \in 1..Len(rows) |-> h[rows[i]]]

FirstOcc(q) == {i \in 1..Len(q) : \A j \in 1..(i - 1) : q[j] # q[i]}

Rank(q, r) ==
    LET p == CHOOSE i \in FirstOcc(q) : q[i] = r
    IN  Cardinality({j \in FirstOcc(q) : j <= p})

Renum(q, refs) == [k \in 1..Len(refs) |-> Rank(q, refs[k])]

Compact(h, q) ==
    [n \in 1..Cardinality(FirstOcc(q)) |->
        h[q[CHOOSE i \in FirstOcc(q) : Cardinality({j \in FirstOcc(q) : j <= i}) = n]]]

\* h extended with the records of rs; the new references are Len(h)+1 ..
Alloc(h, rs) == h \o rs
NewRefs(h, rs) == [i \in 1..Len(rs) |-> Len(h) + i]

(***************************************************************************)
(* Errors.                                                                 *)
(***************************************************************************)
NoErr == [kind |-> "nil"]
NoDf == [Columns |-> <<>>, Rows |-> <<>>, CleanerFunc |-> "nil"]
NoGet == [Columns |-> <<>>, Rows |-> <<>>]

(***************************************************************************)
(* Dataframe.Header                                                        *)
(***************************************************************************)
Header(cols) == [i \in 1..Len(cols) |-> cols[i].name]

(***************************************************************************)
(* Options.  A constructor run is a working value                          *)
(*   [Columns, Rows, CleanerFunc, heap, status, err]                       *)
(* threaded through the options in the order the constructor runs them.    *)
(***************************************************************************)
Reverse(q) == [i \in 1..Len(q) |-> q[Len(q) + 1 - i]]

\* the columns appended for the names strs (ordinals are 0-based)
ColumnsOf(strs) ==
    [i \in 1..Len(strs) |-> [name |-> ToLower(RemoveSpaces(strs[i])), idx |-> i - 1]]

\* a load that leaves out the records whose normalized row is empty
withRecordsFromDataSkipEmpty(b, w) ==
    LET records == Split(b.Data, b.LineSep)
        recs == [i \in 1..Len(records) |->
                    CleanerFunc(w.CleanerFunc, Split(records[i], b.ValSep))]
        kept == SelectSeq(recs, LAMBDA r : Len(r) # 0)
    IN  [w EXCEPT !.heap = w.heap \o kept,
                  !.Rows = w.Rows \o [i \in 1..Len(kept) |-> Len(w.heap) + i]]

\* withRecordsFromData
withRecordsFromData(b, w) ==
    LET records == Split(b.Data, b.LineSep)
        recs == [i \in 1..Len(records) |->
                    LET dfRecord == Split(records[i], b.ValSep)
                    IN  IF w.CleanerFunc # "nil"
                        THEN CleanerFunc(w.CleanerFunc, dfRecord)
                        ELSE dfRecord]
    IN  [w EXCEPT !.heap = Alloc(w.heap, recs),
                  !.Rows = w.Rows \o NewRefs(w.heap, recs)]

\* a provided-columns option that also removes the first row
WithProvidedColumnsDropRow(h, w) ==
    IF Len(w.Rows) = 0
    THEN [w EXCEPT !.status = "panic"]
    ELSE IF Len(h) # Len(w.heap[w.Rows[1]])
    THEN [w EXCEPT !.status = "error",
                   !.err = [kind |-> "HeaderInterpretErr", Provided |-> h,
                            Found |-> w.heap[w.Rows[1]]]]
    ELSE [w EXCEPT !.Columns = w.Columns \o ColumnsOf(h), !.Rows = Tail(w.Rows)]

\* an interpreted-columns option that keeps the first row
WithInterpretedColumnsKeepRow(w) ==
    IF Len(w.Rows) = 0
    THEN [w EXCEPT !.status = "panic"]
    ELSE [w EXCEPT !.Columns = w.Columns \o ColumnsOf(w.heap[w.Rows[1]])]

\* a provided-columns option that does not compare the lengths
WithProvidedColumnsNoCheck(h, w) ==
    IF Len(w.Rows) = 0
    THEN [w EXCEPT !.status = "panic"]
    ELSE [w EXCEPT !.Columns = w.Columns \o ColumnsOf(h)]

\* WithProvidedColumns(h): d.Rows[0] panics on a dataset without rows
WithProvidedColumns(h, w) ==
    IF Len(w.Rows) = 0
    THEN [w EXCEPT !.status = "panic"]
    ELSE IF Len(h) # Len(w.heap[w.Rows[1]])
    THEN [w EXCEPT !.status = "error",
                   !.err = [kind |-> "HeaderInterpretErr", Provided |-> h,
                            Found |-> w.heap[w.Rows[1]]]]
    ELSE [w EXCEPT !.Columns = w.Columns \o ColumnsOf(h)]

\* WithInterpretedColumns(): d.Rows[0] panics on a dataset without rows
WithInterpretedColumns(w) ==
    IF Len(w.Rows) = 0
    THEN [w EXCEPT !.status = "panic"]
    ELSE [w EXCEPT !.Columns = w.Columns \o ColumnsOf(w.heap[w.Rows[1]]),
                   !.Rows = Tail(w.Rows)]

RunOpt(o, w) ==
    CASE o.kind = "data" -> withRecordsFromData(o.b, w)
      [] o.kind = "provided" -> WithProvidedColumns(o.h, w)
      [] o.kind = "interpreted" -> WithInterpretedColumns(w)
      [] OTHER -> w

\* for _, opt := range opts { err := opt(df); if err != nil { return nil, err } }
RECURSIVE RunOpts(_, _)
RunOpts(opts, w) ==
    IF Len(opts) = 0 \/ w.status # "ok"
    THEN w
    ELSE RunOpts(Tail(opts), RunOpt(Head(opts), w))

\* the list with the load appended and not reversed
ExecOrderNoReverse(opts, load) == Append(opts, load)

\* opts = append(opts, load); slices.Reverse(opts)
ExecOrder(opts, load) == Reverse(Append(opts, load))

StartWork(cleaner) ==
    [Columns |-> <<>>, Rows |-> <<>>, CleanerFunc |-> cleaner, heap |-> <<>>,
     status |-> "ok", err |-> NoErr]

\* NewDataframeFromData: CleanerFunc stays nil when cleaner is nil
NewDataframeFromDataResult(b, cleaner, opts) ==
    RunOpts(ExecOrder(opts, [kind |-> "data", b |-> b]), StartWork(cleaner))

(***************************************************************************)
(* Inputs of the calls.                                                    *)
(***************************************************************************)
Cleaners == {"nil", "identity", "cleanRecord"}

\* ByteDefinition values: "A b,c;1,2;3,4", the ragged "a,b;+1;,", and empty
\* data split on an empty separator (no record at all)
DataInputs ==
    { [Data |-> <<"A", " ", "b", ",", "c", ";", "1", ",", "2", ";", "3", ",", "4">>,
       LineSep |-> <<";">>, ValSep |-> <<",">>],
      [Data |-> <<"a", ",", "b", ";", "+", "1", ";", ",">>,
       LineSep |-> <<";">>, ValSep |-> <<",">>],
      [Data |-> <<>>, LineSep |-> <<>>, ValSep |-> <<",">>] }

ProvidedHeaders == { << <<"A", " ", "b">>, <<"c">> >> }

OptChoices ==
    {[kind |-> "interpreted"]} \cup {[kind |-> "provided", h |-> h] : h \in ProvidedHeaders}

OptLists == UNION {[1..n -> OptChoices] : n \in 0..MaxOpts}

\* records a caller passes to SetRecord
RecordInputs == { <<>>, << <<"x">> >>, << <<"x">>, <<"y">> >> }

\* rows of a candidate dataset passed to Append
CandRowLists ==
    { <<>>,
      << << <<"x">>, <<"y">> >> >>,
      << << <<>>, <<>> >>, << <<"p">>, <<"q">> >> >>,
      << << <<"x">> >> >> }

OtherName == <<"z">>

\* headers of a candidate dataset, derived from the receiver's header hd
CandHeaders(hd) ==
    {hd, Reverse(hd), Append(hd, OtherName)}
        \cup {[hd EXCEPT ![i] = OtherName] : i \in 1..Len(hd)}
        \cup (IF Len(hd) > 0 THEN {Tail(hd)} ELSE {})

\* names a caller passes to Get: the first column's name capitalized, the last
\* column's name, and a name no column carries
NameChoices(hd) ==
    (IF Len(hd) > 0 THEN {Capitalized(hd[1]), hd[Len(hd)]} ELSE {}) \cup {OtherName}
NameLists(hd) == UNION {[1..n -> NameChoices(hd)] : n \in 0..2}

\* (row, columns) arguments of Get: the first and the last row with every name
\* list, and the positions before the first and after the last row
GetArgs(rows, hd) ==
    ({0, Len(rows) - 1} \X NameLists(hd))
        \cup ({0 - 1, Len(rows)} \X {<<>>, <<OtherName>>})

IdxRange(rows) == (0 - 1)..(Len(rows) + 1)

\* the variadic index list of Drop: only its least and greatest element matter
DropArgs(rows) == {I \in SUBSET IdxRange(rows) : Cardinality(I) <= 2}

MinOf(I) == CHOOSE x \in I : \A y \in I : x <= y
MaxOf(I) == CHOOSE x \in I : \A y \in I : y <= x

(***************************************************************************)
(* The state after a call: live records only, renumbered.                  *)
(***************************************************************************)
Commit(h, dNew, gotNew, heldNew) ==
    LET q == dNew.Rows \o gotNew.Rows \o heldNew
    IN  /\ heap' = Compact(h, q)
        /\ d' = [dNew EXCEPT !.Rows = Renum(q, dNew.Rows)]
        /\ got' = [gotNew EXCEPT !.Rows = Renum(q, gotNew.Rows)]
        /\ held' = Renum(q, heldNew)

Panic(call) ==
    /\ pc' = "panicked"
    /\ last' = [call EXCEPT !.outcome = "panic"]
    /\ UNCHANGED <<heap, d, got, held>>

(***************************************************************************)
(* NewDataframeFromData                                                    *)
(***************************************************************************)
\* the call, for an input, a normalizer and an option list drawn from given sets
Construct(inputs, cleaners, optLists) ==
    /\ pc = "new"
    /\ fpc = "idle"
    /\ \E b \in inputs, cleaner \in cleaners, opts \in optLists :
        LET w == NewDataframeFromDataResult(b, cleaner, opts)
            call == [op |-> "NewDataframeFromData", outcome |-> w.status, err |-> w.err,
                     b |-> b, cleaner |-> cleaner, opts |-> opts]
        IN  /\ last' = call
            /\ CASE w.status = "ok" ->
                      /\ pc' = "ready"
                      /\ Commit(w.heap,
                                [Columns |-> w.Columns, Rows |-> w.Rows,
                                 CleanerFunc |-> w.CleanerFunc], NoGet, <<>>)
                 [] w.status = "error" ->
                      /\ pc' = "failed"
                      /\ UNCHANGED <<heap, d, got, held>>
                 [] OTHER ->
                      /\ pc' = "panicked"
                      /\ UNCHANGED <<heap, d, got, held>>
    /\ UNCHANGED <<nops, files, fidx, fpc, head, headSet, handles, frows, fnote>>
    /\ UNCHANGED sysVars

NewDataframeFromData == Construct(DataInputs, Cleaners, OptLists)

(***************************************************************************)
(* Dataframe.Drop                                                          *)
(***************************************************************************)
\* slices.Delete(s, i, j): s without s[i:j]
SlicesDelete(s, i, j) == SubSeq(s, 1, i) \o SubSeq(s, j + 1, Len(s))

\* the rows Drop leaves: the span deleted, then the empty rows filtered out
DropRows(h, rows, lo, hi) ==
    SelectSeq(SlicesDelete(rows, lo, hi), LAMBDA r : Len(h[r]) # 0)

Drop ==
    /\ pc = "ready"
    /\ nops < MaxOps
    /\ \E I \in DropArgs(d.Rows) :
        LET call == [op |-> "Drop", outcome |-> "ok", err |-> NoErr, i |-> I]
        IN  IF I = {} \/ MinOf(I) < 0 \/ MaxOf(I) > Len(d.Rows)
            THEN Panic(call)
            ELSE /\ Commit(heap, [d EXCEPT !.Rows = DropRows(heap, d.Rows, MinOf(I), MaxOf(I))],
                           NoGet, <<>>)
                 /\ pc' = "ready"
                 /\ last' = call
    /\ nops' = nops + 1
    /\ UNCHANGED fileVars
    /\ UNCHANGED sysVars

(***************************************************************************)
(* Dataframe.Get                                                           *)
(***************************************************************************)
\* a comparison of names that does not fold case
MatchedColumnsExact(cols, columns) ==
    SelectSeq(cols, LAMBDA c : \E k \in 1..Len(columns) : columns[k] = c.name)

\* the columns of cols that some requested name matches, in column order
MatchedColumns(cols, columns) ==
    SelectSeq(cols, LAMBDA c : \E k \in 1..Len(columns) : EqualFold(columns[k], c.name))

\* result = append(result, r[c.idx]) for every matched column
ProjectRow(r, matched) == [k \in 1..Len(matched) |-> r[matched[k].idx + 1]]

Get ==
    /\ pc = "ready"
    /\ nops < MaxOps
    /\ \E arg \in GetArgs(d.Rows, Header(d.Columns)) :
        LET row == arg[1]
            columns == arg[2]
            call == [op |-> "Get", outcome |-> "ok", err |-> NoErr,
                     row |-> row, columns |-> columns]
            matched == MatchedColumns(d.Columns, columns)
        IN  IF row < 0 \/ row >= Len(d.Rows)
            THEN Panic(call)
            ELSE IF Len(columns) = 0
            THEN /\ Commit(heap, d, [Columns |-> d.Columns, Rows |-> <<d.Rows[row + 1]>>], <<>>)
                 /\ pc' = "ready"
                 /\ last' = call
            ELSE IF \E k \in 1..Len(matched) : matched[k].idx >= Len(heap[d.Rows[row + 1]])
            THEN Panic(call)
            ELSE IF Len(matched) # Len(columns)
            THEN /\ Commit(heap, d, NoGet, <<>>)
                 /\ pc' = "ready"
                 /\ last' = [call EXCEPT !.outcome = "error",
                                !.err = [kind |-> "ColumnsNotFoundErr",
                                         Available |-> Header(d.Columns),
                                         Required |-> columns]]
            ELSE LET result == ProjectRow(heap[d.Rows[row + 1]], matched)
                 IN  /\ Commit(Alloc(heap, <<result>>), d,
                               [Columns |-> matched, Rows |-> NewRefs(heap, <<result>>)], <<>>)
                     /\ pc' = "ready"
                     /\ last' = call
    /\ nops' = nops + 1
    /\ UNCHANGED fileVars
    /\ UNCHANGED sysVars

(***************************************************************************)
(* Dataframe.SetRecord                                                     *)
(***************************************************************************)
SetRecord ==
    /\ pc = "ready"
    /\ nops < MaxOps
    /\ \E row \in IdxRange(d.Rows), record \in RecordInputs :
        LET call == [op |-> "SetRecord", outcome |-> "ok", err |-> NoErr,
                     row |-> row, record |-> record]
            ref == Len(heap) + 1
        IN  IF row > Len(d.Rows) - 1
            THEN /\ Commit(heap, d, NoGet, <<>>)
                 /\ pc' = "ready"
                 /\ last' = [call EXCEPT !.outcome = "error",
                                !.err = [kind |-> "ErrBadRowIdx", row |-> row]]
            ELSE IF Len(record) # Len(Header(d.Columns))
            THEN /\ Commit(heap, d, NoGet, <<>>)
                 /\ pc' = "ready"
                 /\ last' = [call EXCEPT !.outcome = "error",
                                !.err = [kind |-> "ErrBadRow"]]
            ELSE IF row < 0
            THEN Panic(call)
            ELSE /\ Commit(Alloc(heap, <<record>>),
                           [d EXCEPT !.Rows[row + 1] = ref], NoGet, <<ref>>)
                 /\ pc' = "ready"
                 /\ last' = call
    /\ nops' = nops + 1
    /\ UNCHANGED fileVars
    /\ UNCHANGED sysVars

(***************************************************************************)
(* compareHeaders and Dataframe.Append                                     *)
(***************************************************************************)
\* a comparison that skips the length test
compareHeadersNoLength(header1, header2) ==
    IF \E i \in 1..Len(header1) : \A j \in 1..Len(header2) : header2[j] # header1[i]
    THEN (CHOOSE i \in 1..Len(header1) :
            /\ \A j \in 1..Len(header2) : header2[j] # header1[i]
            /\ \A k \in 1..(i - 1) : \E j \in 1..Len(header2) : header2[j] = header1[k]) - 1
    ELSE 0

compareHeaders(header1, header2) ==
    IF Len(header1) # Len(header2)
    THEN 0 - 1
    ELSE IF \E i \in 1..Len(header1) : \A j \in 1..Len(header2) : header2[j] # header1[i]
    THEN (CHOOSE i \in 1..Len(header1) :
            /\ \A j \in 1..Len(header2) : header2[j] # header1[i]
            /\ \A k \in 1..(i - 1) : \E j \in 1..Len(header2) : header2[j] = header1[k]) - 1
    ELSE 0

\* the rows Append adds for the candidate rows cand (references into h): the
\* identity returns the candidate's own slice, cleanRecord a new record
RECURSIVE AppendRows(_, _, _)
AppendRows(kind, w, cand) ==
    IF Len(cand) = 0
    THEN w
    ELSE LET cleanRec == CleanerFunc(kind, w.heap[Head(cand)])
             next == IF Len(cleanRec) = 0
                     THEN w
                     ELSE IF kind = "identity"
                     THEN [w EXCEPT !.Rows = Append(w.Rows, Head(cand))]
                     ELSE [w EXCEPT !.heap = Append(w.heap, cleanRec),
                                    !.Rows = Append(w.Rows, Len(w.heap) + 1)]
         IN  AppendRows(kind, next, Tail(cand))

AppendCall ==
    /\ pc = "ready"
    /\ nops < MaxOps
    /\ \E chd \in CandHeaders(Header(d.Columns)), crows \in CandRowLists :
        LET v == compareHeaders(Header(d.Columns), chd)
            call == [op |-> "Append", outcome |-> "ok", err |-> NoErr,
                     header |-> chd, rows |-> crows, v |-> v]
            h1 == Alloc(heap, crows)
            cand == NewRefs(heap, crows)
        IN  IF v # 0
            THEN /\ Commit(h1, d, NoGet, cand)
                 /\ pc' = "ready"
                 /\ last' = [call EXCEPT !.outcome = "error",
                                !.err = [kind |-> "ErrIncompatibleDataframes",
                                         cause |-> IF v = 0 - 1 THEN "length" ELSE "mismatch",
                                         idx |-> v]]
            ELSE IF d.CleanerFunc = "nil" /\ Len(crows) > 0
            THEN Panic(call)
            ELSE LET w == AppendRows(d.CleanerFunc, [heap |-> h1, Rows |-> d.Rows], cand)
                 IN  /\ Commit(w.heap, [d EXCEPT !.Rows = w.Rows], NoGet, cand)
                     /\ pc' = "ready"
                     /\ last' = call
    /\ nops' = nops + 1
    /\ UNCHANGED fileVars
    /\ UNCHANGED sysVars

(***************************************************************************)
(* The caller writes a cell of a record it holds (a record it passed in,   *)
(* or a row of the dataset Get returned): r[pos] = "!".  Not a call on the *)
(* dataset; the model lets one write follow a call.                        *)
(***************************************************************************)
CallerRefs == {held[i] : i \in 1..Len(held)} \cup {got.Rows[i] : i \in 1..Len(got.Rows)}

Poke ==
    /\ pc = "ready"
    /\ last.op # "Poke"
    /\ \E ref \in CallerRefs :
         \E pos \in 1..Len(heap[ref]) :
            /\ heap' = [heap EXCEPT ![ref][pos] = <<"!">>]
            /\ last' = [op |-> "Poke", outcome |-> "ok", err |-> NoErr,
                        record |-> heap[ref], pos |-> pos]
    /\ UNCHANGED <<d, got, held, pc, nops>>
    /\ UNCHANGED fileVars
    /\ UNCHANGED sysVars

(***************************************************************************)
(* SimpleStore[K, T] (simpleStore.go): a Go map.  The model keeps, for     *)
(* every key, what the lookup `i, ok := os[k]` yields.                     *)
(***************************************************************************)
Keys == {"a", "b"}

\* the zero value of T, which a failed lookup yields
ZeroT == 0

Values == {ZeroT, 1, 2}

Absent == [ok |-> FALSE, v |-> ZeroT]

Present(i) == [ok |-> TRUE, v |-> i]

StoreErr(kind, k) == [kind |-> kind, key |-> k]

SimpleStoreAdd(os, k, i) ==
    IF os[k].ok
    THEN [os |-> os, err |-> StoreErr("ErrNoOverwrite", k)]
    ELSE [os |-> [os EXCEPT ![k] = Present(i)], err |-> NoErr]

SimpleStoreGet(os, k) ==
    IF ~os[k].ok
    THEN [i |-> os[k].v, err |-> StoreErr("ErrNoOrderFound", k)]
    ELSE [i |-> os[k].v, err |-> NoErr]

\* an Update that stores the value whether or not the key is there
SimpleStoreUpsert(os, k, i) == [os |-> [os EXCEPT ![k] = Present(i)], err |-> NoErr]

SimpleStoreUpdate(os, k, i) ==
    IF ~os[k].ok
    THEN [os |-> os, err |-> StoreErr("ErrNoOrderFound", k)]
    ELSE [os |-> [os EXCEPT ![k] = Present(i)], err |-> NoErr]

SimpleStoreDelete(os, k) ==
    IF ~os[k].ok
    THEN [os |-> os, err |-> StoreErr("ErrNoOrderFound", k)]
    ELSE [os |-> [os EXCEPT ![k] = Absent], err |-> NoErr]

Outcome(err) == IF err = NoErr THEN "ok" ELSE "error"

StoreFrame == UNCHANGED <<coreVars, fileVars, db, logger, ff>>

Add ==
    /\ \E k \in Keys, i \in Values :
        LET r == SimpleStoreAdd(store, k, i)
        IN  /\ store' = r.os
            /\ last' = [op |-> "SimpleStore.Add", outcome |-> Outcome(r.err), err |-> r.err,
                        k |-> k, i |-> i]
    /\ StoreFrame

StoreGet ==
    /\ \E k \in Keys :
        LET r == SimpleStoreGet(store, k)
        IN  last' = [op |-> "SimpleStore.Get", outcome |-> Outcome(r.err), err |-> r.err,
                     k |-> k, i |-> r.i]
    /\ UNCHANGED store
    /\ StoreFrame

Update ==
    /\ \E k \in Keys, i \in Values :
        LET r == SimpleStoreUpdate(store, k, i)
        IN  /\ store' = r.os
            /\ last' = [op |-> "SimpleStore.Update", outcome |-> Outcome(r.err), err |-> r.err,
                        k |-> k, i |-> i]
    /\ StoreFrame

Delete ==
    /\ \E k \in Keys :
        LET r == SimpleStoreDelete(store, k)
        IN  /\ store' = r.os
            /\ last' = [op |-> "SimpleStore.Delete", outcome |-> Outcome(r.err), err |-> r.err,
                        k |-> k, i |-> ZeroT]
    /\ StoreFrame

(***************************************************************************)
(* Database (db/database.go).  A configuration field is a string, empty or *)
(* not, the template a pointer, nil or not.  A query constructor is a      *)
(* value of some Go type whose Construct() returns a query text; the       *)
(* prepared statements are kept in a map keyed by reflect.TypeOf(qc).Name().*)
(***************************************************************************)
FieldValues == {<<>>, <<"x">>}

DatabaseConfigs ==
    [Driver : FieldValues, Name : FieldValues, Address : FieldValues,
     CredentialsName : FieldValues, CredentialsPassword : FieldValues,
     ConnectionStringTemplate : {"nil", "template"}]

ErrBadConfig == [kind |-> "ErrBadConfig"]

ValidateConfig(c) ==
    LET valid == /\ Len(c.Address) # 0
                 /\ Len(c.Driver) # 0
                 /\ c.ConnectionStringTemplate # "nil"
                 /\ Len(c.CredentialsName) # 0
                 /\ Len(c.CredentialsPassword) # 0
    IN  IF ~valid THEN ErrBadConfig ELSE NoErr

\* Go types of query constructors: a named struct type, or a pointer to one
ConstructorTypes == [name : {<<"Q", "1">>, <<"Q", "2">>}, ptr : BOOLEAN]

QueryTexts == {"INSERT", "DELETE"}

\* constructor values: a type and the text its Construct() returns
QueryConstructors == [type : ConstructorTypes, text : QueryTexts]

\* reflect.Type.Name(): the name of a defined type, empty for a pointer type
TypeName(t) == IF t.ptr THEN <<>> ELSE t.name

StmtKeys == {TypeName(t) : t \in ConstructorTypes}

NoStmt == [ok |-> FALSE, text |-> "", type |-> [name |-> <<>>, ptr |-> FALSE]]

NoStmts == [k \in StmtKeys |-> NoStmt]

DbFrame == UNCHANGED <<coreVars, fileVars, store, logger, ff>>

NewDatabase ==
    /\ db.state = "none"
    /\ \E c \in DatabaseConfigs, env \in {"ok", "template", "open"} :
        LET err == ValidateConfig(c)
            call == [op |-> "NewDatabase", outcome |-> "ok", err |-> NoErr, c |-> c,
                     opened |-> FALSE]
        IN  IF err # NoErr
            THEN /\ last' = [call EXCEPT !.outcome = "error", !.err = err]
                 /\ UNCHANGED db
            ELSE IF env = "template"
            THEN /\ last' = [call EXCEPT !.outcome = "error",
                                !.err = [kind |-> "template"]]
                 /\ UNCHANGED db
            ELSE IF env = "open"
            THEN /\ last' = [call EXCEPT !.outcome = "error", !.opened = TRUE,
                                !.err = [kind |-> "sql.Open"]]
                 /\ UNCHANGED db
            ELSE /\ last' = [call EXCEPT !.opened = TRUE]
                 /\ db' = [state |-> "open", prepStmts |-> NoStmts]
    /\ DbFrame

ExecuteConstructor ==
    /\ db.state = "open"
    /\ \E qc \in QueryConstructors, env \in {"ok", "prepare", "exec"} :
        LET key == TypeName(qc.type)
            ok == db.prepStmts[key].ok
            call == [op |-> "ExecuteConstructor", outcome |-> "ok", err |-> NoErr,
                     qc |-> qc, prepared |-> ~ok, executed |-> NoStmt]
            stmt == IF ok THEN db.prepStmts[key]
                    ELSE [ok |-> TRUE, text |-> qc.text, type |-> qc.type]
        IN  IF ~ok /\ env = "prepare"
            THEN /\ last' = [call EXCEPT !.outcome = "error",
                                !.err = [kind |-> "statement construction error"]]
                 /\ UNCHANGED db
            ELSE /\ db' = [db EXCEPT !.prepStmts[key] = stmt]
                 /\ last' = IF env = "exec"
                            THEN [call EXCEPT !.outcome = "error", !.executed = stmt,
                                     !.err = [kind |-> "stmt.Exec"]]
                            ELSE [call EXCEPT !.executed = stmt]
    /\ DbFrame

(***************************************************************************)
(* The Logger: a slog.Logger and the configuration it was built from,      *)
(* behind a sync.RWMutex.  Goroutines call the log methods and             *)
(* UpdateConfig; a call is a sequence of steps: taking the lock, the work  *)
(* under it, releasing the lock.                                           *)
(***************************************************************************)
Goroutines == {"g", "h"}

\* LoggerLevel values a caller can pass; "trace" is none of the four constants
LoggerLevels == {"debug", "info", "warn", "error", "trace"}

\* writers a configuration can name; "nil" is the nil io.Writer
Stdout == "os.Stdout"

\* LoggerConfig: the level, the main output and the additional outputs (the
\* formats do not decide whether a record is written)
LoggerConfigs ==
    [Level : LoggerLevels,
     Output : {"nil", "buf"},
     AdditionalOutputs : {<<>>, <<"nil", "aux">>}]

\* slog.Level of a LoggerLevel
getLevelFromString(level) ==
    CASE level = "debug" -> 0 - 4
      [] level = "info" -> 0
      [] level = "warn" -> 4
      [] level = "error" -> 8
      [] OTHER -> 0

\* the log methods and the slog.Level each one logs at
LogMethods == {"Debug", "Info", "Warn", "Error"}

MethodLevel(m) ==
    CASE m = "Debug" -> 0 - 4
      [] m = "Info" -> 0
      [] m = "Warn" -> 4
      [] m = "Error" -> 8

\* the writers of the handlers New and UpdateConfig build for a configuration:
\* the non-nil outputs, and os.Stdout when there is none
HandlerWriters(config) ==
    LET main == IF config.Output # "nil" THEN {config.Output} ELSE {}
        more == {config.AdditionalOutputs[i] : i \in 1..Len(config.AdditionalOutputs)} \ {"nil"}
    IN  IF main \cup more = {} THEN {Stdout} ELSE main \cup more

\* slog.New(handler) for the handlers of a configuration
NewSlogger(config) ==
    [level |-> getLevelFromString(config.Level), writers |-> HandlerWriters(config)]

\* l.slogger.Debug/Info/Warn/Error: the writers that receive the record
SloggerLog(slogger, m) ==
    IF MethodLevel(m) >= slogger.level THEN slogger.writers ELSE {}

NoGoroutine == "none"

Idle == [at |-> "idle"]

\* a read lock that does not wait for the writer
CanRLockAlways(mu) == TRUE

\* sync.RWMutex: RLock proceeds while no writer holds the lock, Lock while
\* nobody holds it
CanRLock(mu) == mu.writer = NoGoroutine

CanLock(mu) == mu.writer = NoGoroutine /\ mu.readers = {}

LoggerFrame == UNCHANGED <<coreVars, fileVars, store, db, ff>>

\* New(config)
NewLogger ==
    /\ logger.state = "none"
    /\ \E config \in LoggerConfigs :
        /\ logger' = [state |-> "live",
                      slogger |-> NewSlogger(config),
                      config |-> config,
                      updated |-> FALSE,
                      mu |-> [readers |-> {}, writer |-> NoGoroutine],
                      g |-> [p \in Goroutines |-> Idle]]
        /\ last' = [op |-> "logging.New", outcome |-> "ok", err |-> NoErr, config |-> config]
    /\ LoggerFrame

\* a goroutine calls Debug, Info, Warn or Error: l.mu.RLock()
LogRLock ==
    /\ logger.state = "live"
    /\ \E p \in Goroutines, m \in LogMethods :
        /\ logger.g[p] = Idle
        /\ CanRLock(logger.mu)
        /\ logger' = [logger EXCEPT !.mu.readers = @ \cup {p},
                                    !.g[p] = [at |-> "log", method |-> m]]
    /\ UNCHANGED last
    /\ LoggerFrame

\* l.slogger.Debug(msg, attrs...) and the like
LogEmit ==
    /\ logger.state = "live"
    /\ \E p \in Goroutines :
        /\ logger.g[p].at = "log"
        /\ last' = [op |-> "Logger.Log", outcome |-> "ok", err |-> NoErr,
                    method |-> logger.g[p].method, goroutine |-> p,
                    written |-> SloggerLog(logger.slogger, logger.g[p].method)]
        /\ logger' = [logger EXCEPT !.g[p] = [at |-> "runlock"]]
    /\ LoggerFrame

\* defer l.mu.RUnlock()
LogRUnlock ==
    /\ logger.state = "live"
    /\ \E p \in Goroutines :
        /\ logger.g[p].at = "runlock"
        /\ logger' = [logger EXCEPT !.mu.readers = @ \ {p}, !.g[p] = Idle]
    /\ UNCHANGED last
    /\ LoggerFrame

\* a goroutine calls UpdateConfig(config): l.mu.Lock()
UpdateConfigLock ==
    /\ logger.state = "live"
    /\ \E p \in Goroutines, config \in LoggerConfigs :
        /\ logger.g[p] = Idle
        /\ CanLock(logger.mu)
        /\ logger' = [logger EXCEPT !.mu.writer = p,
                                    !.g[p] = [at |-> "slogger", config |-> config]]
    /\ UNCHANGED last
    /\ LoggerFrame

\* l.slogger = slog.New(handler)
UpdateConfigSlogger ==
    /\ logger.state = "live"
    /\ \E p \in Goroutines :
        /\ logger.g[p].at = "slogger"
        /\ logger' = [logger EXCEPT !.slogger = NewSlogger(logger.g[p].config),
                                    !.g[p].at = "config"]
    /\ UNCHANGED last
    /\ LoggerFrame

\* l.config = config
UpdateConfigConfig ==
    /\ logger.state = "live"
    /\ \E p \in Goroutines :
        /\ logger.g[p].at = "config"
        /\ logger' = [logger EXCEPT !.config = logger.g[p].config,
                                    !.updated = TRUE,
                                    !.g[p] = [at |-> "unlock"]]
    /\ UNCHANGED last
    /\ LoggerFrame

\* defer l.mu.Unlock()
UpdateConfigUnlock ==
    /\ logger.state = "live"
    /\ \E p \in Goroutines :
        /\ logger.g[p].at = "unlock"
        /\ logger' = [logger EXCEPT !.mu.writer = NoGoroutine, !.g[p] = Idle]
    /\ UNCHANGED last
    /\ LoggerFrame

(***************************************************************************)
(* The FileFilter: a glob pattern, a maximum age and the registered        *)
(* locations, each an os.DirFS.  The directories it looks at and the clock *)
(* are the environment: every location holds a list of files in name       *)
(* order, each with its modification time and with what happens when it is *)
(* opened and examined.                                                     *)
(***************************************************************************)
Locations == {"dir1", "dir2"}

\* a file: its name (stem and extension), its modification time, and whether
\* Open and Stat succeed on it
File(stem, ext, mtime, access) ==
    [name |-> [stem |-> stem, ext |-> ext], mtime |-> mtime, access |-> access]

FileSystems ==
    { [loc \in Locations |->
          IF loc = "dir1"
          THEN <<File("a", "txt", 3, "ok"), File("b", "log", 3, "ok"), File("old", "txt", 0, "ok")>>
          ELSE <<File("c", "txt", 2, "ok")>>],
      [loc \in Locations |->
          IF loc = "dir1"
          THEN <<File("a", "txt", 3, "noopen"), File("old", "txt", 0, "ok")>>
          ELSE <<>>],
      [loc \in Locations |->
          IF loc = "dir1"
          THEN <<>>
          ELSE <<File("a", "txt", 3, "ok"), File("c", "txt", 3, "nostat")>>] }

\* readings of the clock
Times == 3..4

\* durations passed to WithFileAge; 0 is the zero Duration
Ages == {0, 1, 2, 5}

\* glob patterns: "*.txt", "a.txt", the malformed "[", and the empty pattern
\* of a filter that was given none
NoPattern == [kind |-> "empty"]
BadPattern == [kind |-> "bad"]
GlobPatterns ==
    {[kind |-> "glob", stem |-> "*", ext |-> "txt"],
     [kind |-> "glob", stem |-> "a", ext |-> "txt"]}

ErrBadPattern == [kind |-> "ErrBadPattern"]
ErrNoDirsProvided == [kind |-> "ErrNoDirsProvided"]

\* path.Match of a file name against a pattern
Match(pattern, name) ==
    /\ pattern.kind = "glob"
    /\ pattern.stem = "*" \/ pattern.stem = name.stem
    /\ pattern.ext = name.ext

\* fs.Glob(fsys, pattern): the matching entries of the directory, in name order
Glob(dirFiles, pattern) == SelectSeq(dirFiles, LAMBDA f : Match(pattern, f.name))

\* filepath.Join(path, m)
PathJoin(path, name) == [dir |-> path, name |-> name]

\* the loop over the matches of one location when the age filter is set; acc
\* carries the matches so far and the way the loop ended
RECURSIVE AgeLoop(_, _, _, _, _)
AgeLoop(path, ms, now, maxAge, acc) ==
    IF Len(ms) = 0 \/ acc.status # "ok"
    THEN acc
    ELSE LET m == Head(ms)
             a1 == IF m.access = "noopen"
                   THEN [acc EXCEPT !.status = "error", !.err = [kind |-> "Open", name |-> m.name]]
                   ELSE IF m.access = "nostat"
                   THEN [acc EXCEPT !.status = "panic"]
                   ELSE IF m.mtime > now - maxAge
                   THEN [acc EXCEPT !.matches = Append(acc.matches, PathJoin(path, m.name))]
                   ELSE acc
         IN  AgeLoop(path, Tail(ms), now, maxAge, a1)

\* the loop of Filter over the registered file systems, visited in order
RECURSIVE FilterLoop(_, _, _, _, _, _)
FilterLoop(order, fsys, pattern, now, maxAge, acc) ==
    IF Len(order) = 0 \/ acc.status # "ok"
    THEN acc
    ELSE LET path == Head(order)
             matches == Glob(fsys[path], pattern)
             a1 == IF maxAge # 0
                   THEN AgeLoop(path, matches, now, maxAge, acc)
                   ELSE [acc EXCEPT !.matches =
                            acc.matches \o [i \in 1..Len(matches) |-> PathJoin(path, matches[i].name)]]
         IN  FilterLoop(Tail(order), fsys, pattern, now, maxAge, a1)

\* the orders in which a range over the map ff.dir can visit its keys
VisitOrders(dir) ==
    {o \in UNION {[1..n -> dir] : n \in {Cardinality(dir)}} :
        \A i, j \in 1..Len(o) : i # j => o[i] # o[j]}

FilterFrame == UNCHANGED <<coreVars, fileVars, store, db, logger>>

\* NewFileFilter(opts...) with at most one of WithGlobPattern, WithFileAge and
\* SetLoc each; the directories and the clock are what the filter will find
NewFileFilter ==
    /\ ff.state = "none"
    /\ \E pattern \in GlobPatterns \cup {NoPattern, BadPattern}, maxAge \in Ages,
          dir \in SUBSET Locations, fsys \in FileSystems :
        LET call == [op |-> "NewFileFilter", outcome |-> "ok", err |-> NoErr,
                     pattern |-> pattern, maxAge |-> maxAge, dir |-> dir]
        IN  IF pattern = BadPattern
            THEN /\ last' = [call EXCEPT !.outcome = "error", !.err = ErrBadPattern]
                 /\ UNCHANGED ff
            ELSE /\ last' = call
                 /\ ff' = [state |-> "live", pattern |-> pattern, maxAge |-> maxAge,
                           dir |-> dir, matches |-> <<>>, fsys |-> fsys,
                           now |-> 3, calls |-> 0]
    /\ FilterFrame

\* ff.SetPattern(p)
SetPattern ==
    /\ ff.state = "live"
    /\ \E p \in GlobPatterns \cup {BadPattern} :
        LET call == [op |-> "FileFilter.SetPattern", outcome |-> "ok", err |-> NoErr,
                     pattern |-> p]
        IN  IF p = BadPattern
            THEN /\ last' = [call EXCEPT !.outcome = "error", !.err = ErrBadPattern]
                 /\ UNCHANGED ff
            ELSE /\ last' = call
                 /\ ff' = [ff EXCEPT !.pattern = p]
    /\ FilterFrame

\* time passes
Tick ==
    /\ ff.state = "live"
    /\ ff.now + 1 \in Times
    /\ ff' = [ff EXCEPT !.now = @ + 1]
    /\ UNCHANGED last
    /\ FilterFrame

\* ff.Filter(): the receiver is a copy, so what the loop appends to
\* ff.matches is returned and not kept
Filter ==
    /\ ff.state = "live"
    /\ ff.calls < MaxCalls
    /\ LET call == [op |-> "FileFilter.Filter", outcome |-> "ok", err |-> NoErr,
                    nth |-> ff.calls + 1, pattern |-> ff.pattern, maxAge |-> ff.maxAge,
                    dir |-> ff.dir, fsys |-> ff.fsys, now |-> ff.now,
                    isNil |-> TRUE, matches |-> <<>>, before |-> last]
       IN  IF Cardinality(ff.dir) = 0
           THEN last' = [call EXCEPT !.outcome = "error", !.err = ErrNoDirsProvided]
           ELSE \E order \in VisitOrders(ff.dir) :
                  LET r == FilterLoop(order, ff.fsys, ff.pattern, ff.now, ff.maxAge,
                                      [matches |-> ff.matches, status |-> "ok", err |-> NoErr])
                  IN  last' = CASE r.status = "ok" ->
                                     [call EXCEPT !.matches = r.matches,
                                                  !.isNil = (Len(r.matches) = 0)]
                                  [] r.status = "error" ->
                                     [call EXCEPT !.outcome = "error", !.err = r.err]
                                  [] OTHER ->
                                     [call EXCEPT !.outcome = "panic"]
    /\ ff' = [ff EXCEPT !.calls = @ + 1]
    /\ FilterFrame

(***************************************************************************)
(* The dataset core: construction from data, then calls on the dataset.    *)
(***************************************************************************)
Init ==
    /\ heap = <<>>
    /\ d = NoDf
    /\ got = NoGet
    /\ held = <<>>
    /\ pc = "new"
    /\ last = [op |-> "none", outcome |-> "ok", err |-> NoErr]
    /\ nops = 0
    /\ files = <<>>
    /\ fidx = 0
    /\ fpc = "idle"
    /\ head = <<>>
    /\ headSet = FALSE
    /\ handles = {}
    /\ frows = <<>>
    /\ fnote = [origin |-> <<>>, compared |-> {}, dateRow |-> <<>>]
    /\ store = [k \in Keys |-> [ok |-> FALSE, v |-> ZeroT]]
    /\ db = [state |-> "none", prepStmts |-> NoStmts]
    /\ logger = [state |-> "none"]
    /\ ff = [state |-> "none"]

Next ==
    \/ NewDataframeFromData
    \/ Drop
    \/ Get
    \/ SetRecord
    \/ AppendCall
    \/ Poke

Spec == Init /\ [][Next]_vars

NextLogger ==
    \/ NewLogger
    \/ LogRLock
    \/ LogEmit
    \/ LogRUnlock
    \/ UpdateConfigLock
    \/ UpdateConfigSlogger
    \/ UpdateConfigConfig
    \/ UpdateConfigUnlock

SpecLogger == Init /\ [][NextLogger]_vars

NextFilter ==
    \/ NewFileFilter
    \/ SetPattern
    \/ Tick
    \/ Filter

SpecFilter == Init /\ [][NextFilter]_vars

(***************************************************************************)
(* A SimpleStore and the calls on it.                                       *)
(***************************************************************************)
NextStore ==
    \/ Add
    \/ StoreGet
    \/ Update
    \/ Delete

SpecStore == Init /\ [][NextStore]_vars

(***************************************************************************)
(* DfRowsAsStructList.  A struct type is the sequence of its fields, each  *)
(* a `df` tag and a reflect.Kind.  A field value carries the string of a   *)
(* string field, the integer of an integer field, and for a float field    *)
(* the decimal digits (num) and the number of fraction digits (exp).       *)
(***************************************************************************)
Zero == [str |-> <<>>, num |-> 0, exp |-> 0]

DigitChars == {"0", "1", "2", "3", "4", "5", "6", "7", "8", "9"}

DigitVal(c) ==
    CASE c = "0" -> 0 [] c = "1" -> 1 [] c = "2" -> 2 [] c = "3" -> 3 [] c = "4" -> 4
      [] c = "5" -> 5 [] c = "6" -> 6 [] c = "7" -> 7 [] c = "8" -> 8 [] c = "9" -> 9

IsDigits(s) == Len(s) > 0 /\ \A i \in 1..Len(s) : s[i] \in DigitChars

RECURSIVE DecVal(_)
DecVal(s) ==
    IF Len(s) = 0 THEN 0 ELSE DecVal(SubSeq(s, 1, Len(s) - 1)) * 10 + DigitVal(s[Len(s)])

\* strconv.ParseUint(s, 10, 64): digits only.  The cells of the model have at
\* most five digits, so the 64-bit range error does not arise.
ParseUint(s) ==
    IF IsDigits(s) THEN [ok |-> TRUE, v |-> DecVal(s)] ELSE [ok |-> FALSE, v |-> 0]

\* strconv.ParseInt(s, 10, 64): an optional sign, then digits
ParseInt(s) ==
    IF Len(s) > 0 /\ s[1] \in {"+", "-"}
    THEN LET u == ParseUint(Tail(s))
         IN  IF ~u.ok THEN u
             ELSE IF s[1] = "-" THEN [ok |-> TRUE, v |-> 0 - u.v] ELSE u
    ELSE ParseUint(s)

\* strconv.ParseFloat(s, 64) on the characters of the model's cells (digits,
\* sign, point and the letters q, x, y): an optional sign, digits with at most
\* one point, at least one digit.  No exponent, hex, inf or nan form can be
\* written with these characters.
ParseFloat(s) ==
    LET body == IF Len(s) > 0 /\ s[1] \in {"+", "-"} THEN Tail(s) ELSE s
        points == {i \in 1..Len(body) : body[i] = "."}
        digits == SelectSeq(body, LAMBDA c : c # ".")
        frac == IF points = {} THEN 0 ELSE Len(body) - (CHOOSE i \in points : TRUE)
    IN  IF Cardinality(points) <= 1 /\ IsDigits(digits)
        THEN [ok |-> TRUE,
              v |-> IF Len(s) > 0 /\ s[1] = "-" THEN 0 - DecVal(digits) ELSE DecVal(digits),
              exp |-> frac]
        ELSE [ok |-> FALSE, v |-> 0, exp |-> 0]

StringKinds == {"string"}
FloatKinds == {"float32", "float64"}
IntKinds == {"int", "int8", "int16", "int32", "int64"}
UintKinds == {"uint", "uint8", "uint16", "uint32", "uint64"}
Kinds == StringKinds \cup FloatKinds \cup IntKinds \cup UintKinds \cup {"bool"}

\* the cases of the switch on field.Kind()
SwitchString == {"string"}
SwitchFloat == {"float64", "float32"}
SwitchInt == {"int", "int16", "int32", "int64"}
SwitchUint == {"uint"}

\* width of an integer kind (int and uint are 64 bits wide on the 64-bit build)
Bits(kind) ==
    CASE kind \in {"int8", "uint8"} -> 8
      [] kind \in {"int16", "uint16"} -> 16
      [] kind \in {"int32", "uint32"} -> 32
      [] OTHER -> 64

\* reflect.Value.SetInt: the int64 is converted to the field's type, which
\* keeps the low Bits(kind) bits (two's complement).  The values of the model
\* are below 2^31 in magnitude, so a width of 32 or 64 bits keeps them.
SetInt(kind, v) ==
    IF Bits(kind) >= 32
    THEN v
    ELSE ((v + 2 ^ (Bits(kind) - 1)) % (2 ^ Bits(kind))) - 2 ^ (Bits(kind) - 1)

\* a cell read at a fixed position, whatever column matched
FieldCellFirst(row, cid) == row[1]

\* d.Rows[idx][cid]
FieldCell(row, cid) == row[cid]

\* the tag as given, without strings.ToLower
FieldTagAsGiven(field) == field.tag

\* strings.ToLower(sType.Field(i).Tag.Get("df"))
FieldTag(field) == ToLower(field.tag)

\* 1-based position of the first column named name
FirstColumn(cols, name) ==
    CHOOSE cid \in 1..Len(cols) :
        /\ cols[cid].name = name
        /\ \A k \in 1..(cid - 1) : cols[k].name # name

NumError(func, cell) == [kind |-> "NumError", Func |-> func, Num |-> cell]

\* the body of the loop over the fields, for one row and one field
HydrateField(cols, row, field) ==
    LET fieldTag == FieldTag(field)
        done(v) == [status |-> "ok", err |-> NoErr, v |-> v]
        fail(func, cell) == [status |-> "error", err |-> NumError(func, cell), v |-> Zero]
    IN  IF Len(fieldTag) = 0 \/ fieldTag = <<"-">>
        THEN done(Zero)
        ELSE IF \A k \in 1..Len(cols) : cols[k].name # fieldTag
        THEN done(Zero)
        ELSE LET cid == FirstColumn(cols, fieldTag)
                 known == SwitchString \cup SwitchFloat \cup SwitchInt \cup SwitchUint
             IN  IF field.kind \notin known
                 THEN done(Zero)
                 ELSE IF cid > Len(row)
                 THEN [status |-> "panic", err |-> NoErr, v |-> Zero]
                 ELSE LET cell == FieldCell(row, cid)
                      IN  CASE field.kind \in SwitchString ->
                                   done([Zero EXCEPT !.str = cell])
                            [] field.kind \in SwitchFloat ->
                                   LET fv == ParseFloat(cell)
                                   IN  IF fv.ok
                                       THEN done([Zero EXCEPT !.num = fv.v, !.exp = fv.exp])
                                       ELSE fail("ParseFloat", cell)
                            [] field.kind \in SwitchInt ->
                                   LET iv == ParseInt(cell)
                                   IN  IF iv.ok
                                       THEN done([Zero EXCEPT !.num = SetInt(field.kind, iv.v)])
                                       ELSE fail("ParseInt", cell)
                            [] field.kind \in SwitchUint ->
                                   LET uiv == ParseUint(cell)
                                   IN  IF uiv.ok
                                       THEN done([Zero EXCEPT !.num = uiv.v])
                                       ELSE fail("ParseUint", cell)

\* the loops over rows and fields: the first field of the first row that
\* does not complete ends the call
DfRowsAsStructListResult(cols, rows, sType) ==
    LET fr == [idx \in 1..Len(rows) |->
                    [i \in 1..Len(sType) |-> HydrateField(cols, rows[idx], sType[i])]]
        bad == {p \in (1..Len(rows)) \X (1..Len(sType)) : fr[p[1]][p[2]].status # "ok"}
    IN  IF bad = {}
        THEN [status |-> "ok", err |-> NoErr,
              result |-> [idx \in 1..Len(rows) |-> [i \in 1..Len(sType) |-> fr[idx][i].v]]]
        ELSE LET first == CHOOSE p \in bad :
                            \A q \in bad : p[1] < q[1] \/ (p[1] = q[1] /\ p[2] <= q[2])
             IN  [status |-> fr[first[1]][first[2]].status,
                  err |-> fr[first[1]][first[2]].err,
                  result |-> <<>>]

\* ByteDefinition values of datasets to convert
StructData ==
    { [Data |-> DATA, LineSep |-> <<";">>, ValSep |-> <<",">>] : DATA \in {
        \* n,s;5,x;-3,y
        <<"n", ",", "s", ";", "5", ",", "x", ";", "-", "3", ",", "y">>,
        \* n,s;40000,x
        <<"n", ",", "s", ";", "4", "0", "0", "0", "0", ",", "x">>,
        \* N,s;5,x;q,y
        <<"N", ",", "s", ";", "5", ",", "x", ";", "q", ",", "y">>,
        \* n,s;1.5,x;7,
        <<"n", ",", "s", ";", "1", ".", "5", ",", "x", ";", "7", ",">>,
        \* n,s;5;6,y
        <<"n", ",", "s", ";", "5", ";", "6", ",", "y">>,
        \* n,n;1,2
        <<"n", ",", "n", ";", "1", ",", "2">> } }

StructOptLists ==
    { <<>>, <<[kind |-> "interpreted"]>>, <<[kind |-> "provided", h |-> << <<"S">>, <<"n">> >>]>> }

StructCleaners == {"nil", "cleanRecord"}

Tags == { <<"n">>, <<"S">>, <<>>, <<"-">>, <<"z">> }

Fields == [tag : Tags, kind : Kinds]

StringFields == [tag : Tags, kind : StringKinds]

\* the struct types: one field of any kind, optionally followed by a string field
StructTypes == {<<f>> : f \in Fields} \cup {<<f, g>> : f \in Fields, g \in StringFields}

NewDataframeForStructs == Construct(StructData, StructCleaners, StructOptLists)

\* The call reads the dataset and leaves it as it is, so a second call would
\* see what the first saw: the model converts the constructed dataset once.
DfRowsAsStructList ==
    /\ pc = "ready"
    /\ last.op = "NewDataframeFromData"
    /\ \E sType \in StructTypes :
        LET r == DfRowsAsStructListResult(d.Columns, RowValues(heap, d.Rows), sType)
        IN  /\ last' = [op |-> "DfRowsAsStructList", outcome |-> r.status, err |-> r.err,
                        sType |-> sType, result |-> r.result]
            /\ pc' = IF r.status = "panic" THEN "panicked" ELSE "ready"
    /\ UNCHANGED <<heap, d, got, held, nops>>
    /\ UNCHANGED fileVars
    /\ UNCHANGED sysVars

NextStructs ==
    \/ NewDataframeForStructs
    \/ DfRowsAsStructList

SpecStructs == Init /\ [][NextStructs]_vars

(***************************************************************************)
(* A Database and the calls on it.                                         *)
(***************************************************************************)
NextDb ==
    \/ NewDatabase
    \/ ExecuteConstructor

SpecDb == Init /\ [][NextDb]_vars

(***************************************************************************)
(* NewDataframeFromData, one option at a time: the call, then each option  *)
(* of the reversed list applied to the dataset under construction, then    *)
(* the return.  last.order holds the options still to run.                 *)
(***************************************************************************)
DataChars == {"A", " ", ",", ";"}

\* every string of at most MaxData characters
DataStrings == UNION {[1..n -> DataChars] : n \in 0..MaxData}

\* the separators: ";" and ",", or an empty record separator
BuildInputs ==
    {[Data |-> s, LineSep |-> ls, ValSep |-> <<",">>] : s \in DataStrings, ls \in {<<";">>, <<>>}}

NewDataframeFromDataCall ==
    /\ pc = "new"
    /\ fpc = "idle"
    /\ \E b \in BuildInputs, cleaner \in Cleaners, opts \in OptLists :
        /\ last' = [op |-> "NewDataframeFromData", outcome |-> "running", err |-> NoErr,
                    b |-> b, cleaner |-> cleaner, opts |-> opts,
                    order |-> ExecOrder(opts, [kind |-> "data", b |-> b]),
                    step |-> "none"]
        /\ d' = [Columns |-> <<>>, Rows |-> <<>>, CleanerFunc |-> cleaner]
    /\ pc' = "building"
    /\ UNCHANGED <<heap, got, held, nops>>
    /\ UNCHANGED fileVars
    /\ UNCHANGED sysVars

\* err := opt(df); if err != nil { return nil, err }
RunNextOpt ==
    /\ pc = "building"
    /\ Len(last.order) > 0
    /\ LET o == Head(last.order)
           w == RunOpt(o, [Columns |-> d.Columns, Rows |-> d.Rows,
                           CleanerFunc |-> d.CleanerFunc, heap |-> heap,
                           status |-> "ok", err |-> NoErr])
       IN  CASE w.status = "ok" ->
                    /\ pc' = "building"
                    /\ last' = [last EXCEPT !.order = Tail(@), !.step = o.kind]
                    /\ Commit(w.heap,
                              [Columns |-> w.Columns, Rows |-> w.Rows,
                               CleanerFunc |-> w.CleanerFunc], NoGet, <<>>)
             [] w.status = "error" ->
                    /\ pc' = "failed"
                    /\ last' = [last EXCEPT !.outcome = "error", !.err = w.err,
                                             !.step = o.kind]
                    /\ UNCHANGED <<heap, d, got, held>>
             [] OTHER ->
                    /\ pc' = "panicked"
                    /\ last' = [last EXCEPT !.outcome = "panic", !.step = o.kind]
                    /\ UNCHANGED <<heap, d, got, held>>
    /\ UNCHANGED nops
    /\ UNCHANGED fileVars
    /\ UNCHANGED sysVars

\* return df, nil
NewDataframeFromDataReturn ==
    /\ pc = "building"
    /\ Len(last.order) = 0
    /\ pc' = "ready"
    /\ last' = [last EXCEPT !.outcome = "ok", !.step = "return"]
    /\ UNCHANGED <<heap, d, got, held, nops>>
    /\ UNCHANGED fileVars
    /\ UNCHANGED sysVars

NextBuild ==
    \/ NewDataframeFromDataCall
    \/ RunNextOpt
    \/ NewDataframeFromDataReturn

SpecBuild == Init /\ [][NextBuild]_vars

(***************************************************************************)
(* NewDataframeFromFiles and recordsFromFiles.  A file is what the reader  *)
(* (grate) yields for its path: the step that fails, if any, and the rows  *)
(* of its first sheet, each a record of at least one cell.  The load runs  *)
(* one file at a time: grate.Open, then List, Get and the rows.            *)
(***************************************************************************)
DATE == <<"d", "a", "t", "e">>

FileContents ==
    { \* date,v / 1,2
      << <<DATE, <<"v">>>>, << <<"1">>, <<"2">> >> >>,
      \* n,v / 3,4
      << << <<"n">>, <<"v">> >>, << <<"3">>, <<"4">> >> >>,
      \* a row with an empty first cell, then Date,v / 5,6
      << << <<>>, <<"x">> >>, << <<"D", "a", "t", "e">>, <<"v">> >>, << <<"5">>, <<"6">> >> >>,
      \* delimited text in one cell: "date,v" / "7,8"
      << << <<"d", "a", "t", "e", ",", "v">> >>, << <<"7", ",", "8">> >> >>,
      \* +,date / 9,0
      << << <<"+">>, DATE >>, << <<"9">>, <<"0">> >> >>,
      \* date / 9
      << << DATE >>, << <<"9">> >> >> }

FileInputs ==
    {[fail |-> "none", rows |-> c] : c \in FileContents}
        \cup {[fail |-> f, rows |-> <<>>] : f \in {"open", "list", "get"}}

FileLists == UNION {[1..n -> FileInputs] : n \in 0..MaxFiles}

FileCleaners == {"nil", "cleanRecord"}

\* the cells of a row as recordsFromFiles reads them: a first cell holding a
\* comma is delimited text and is split on it
CellsOf(r) == IF ContainsComma(r[1]) THEN Split(r[1], <<",">>) ELSE r

\* slices.ContainsFunc(cr, func(e) { return strings.EqualFold(e, "date") })
HasDateCell(cr) == \E k \in 1..Len(cr) : EqualFold(cr[k], DATE)

\* position of the first row whose first cell is not empty; 0 when there is none
HeaderPos(rows) ==
    IF \E k \in 1..Len(rows) : Len(rows[k][1]) # 0
    THEN CHOOSE k \in 1..Len(rows) :
            /\ Len(rows[k][1]) # 0
            /\ \A j \in 1..(k - 1) : Len(rows[j][1]) = 0
    ELSE 0

\* the second loop of recordsFromFiles over the rows rs of file f; acc carries
\* d.Rows, head and what the model observes
RECURSIVE LoadRows(_, _, _, _)
LoadRows(kind, f, rs, acc) ==
    IF Len(rs) = 0
    THEN acc
    ELSE LET cr == CleanerFunc(kind, CellsOf(Head(rs)))
             a1 == IF Len(cr) > 0
                   THEN [acc EXCEPT !.rows = Append(acc.rows, cr),
                                    !.origin = Append(acc.origin, f)]
                   ELSE acc
             a2 == IF HasDateCell(cr) /\ ~acc.headSet
                   THEN [a1 EXCEPT !.head = CleanerFunc(kind, cr),
                                   !.headSet = TRUE,
                                   !.dateRow = cr]
                   ELSE a1
         IN  LoadRows(kind, f, Tail(rs), a2)

\* a load that reads a later file like the first one, header row included
ReadFileKeepHeader(kind, f, rows, acc) == LoadRows(kind, f, rows, acc)

\* one iteration of the loop over filePaths, after the sheet was obtained
ReadFile(kind, f, rows, acc) ==
    LET k == HeaderPos(rows)
        record == CleanerFunc(kind, CellsOf(rows[k]))
    IN  IF f = 1
        THEN LoadRows(kind, f, rows, acc)
        ELSE IF k = 0
        THEN acc
        ELSE IF acc.headSet /\ Len(record) > 0 /\ acc.head # record
        THEN [acc EXCEPT !.mismatch = TRUE, !.record = record]
        ELSE LoadRows(kind, f, SubSeq(rows, k + 1, Len(rows)),
                      IF acc.headSet /\ Len(record) > 0
                      THEN [acc EXCEPT !.compared = acc.compared \cup {f}]
                      ELSE acc)

FilesFail(e) ==
    /\ fpc' = "done"
    /\ pc' = "failed"
    /\ last' = [last EXCEPT !.outcome = "error", !.err = e]

NewDataframeFromFiles ==
    /\ pc = "new"
    /\ fpc = "idle"
    /\ \E fs \in FileLists, cleaner \in FileCleaners, opts \in OptLists :
        /\ files' = fs
        /\ d' = [NoDf EXCEPT !.CleanerFunc = IF cleaner = "nil" THEN "identity" ELSE cleaner]
        /\ last' = [op |-> "NewDataframeFromFiles", outcome |-> "running", err |-> NoErr,
                    cleaner |-> cleaner, opts |-> opts,
                    order |-> ExecOrder(opts, [kind |-> "files"])]
    /\ fidx' = 1
    /\ fpc' = "open"
    /\ UNCHANGED <<heap, got, held, pc, nops, head, headSet, handles, frows, fnote>>
    /\ UNCHANGED sysVars

\* source, err := grate.Open(fp)
FileOpen ==
    /\ fpc = "open"
    /\ fidx <= Len(files)
    /\ Head(last.order).kind = "files"
    /\ IF files[fidx].fail = "open"
       THEN /\ FilesFail([kind |-> "upstream", step |-> "open"])
            /\ UNCHANGED handles
       ELSE /\ handles' = handles \cup {fidx}
            /\ fpc' = "read"
            /\ UNCHANGED <<pc, last>>
    /\ UNCHANGED <<heap, d, got, held, nops, files, fidx, head, headSet, frows, fnote>>
    /\ UNCHANGED sysVars

\* source.List(), source.Get(sheets[0]) and the two loops over the rows
FileRead ==
    /\ fpc = "read"
    /\ LET acc == [rows |-> frows, origin |-> fnote.origin, compared |-> fnote.compared,
                   dateRow |-> fnote.dateRow, head |-> head, headSet |-> headSet,
                   mismatch |-> FALSE, record |-> <<>>]
           r == ReadFile(d.CleanerFunc, fidx, files[fidx].rows, acc)
       IN  IF files[fidx].fail \in {"list", "get"}
           THEN /\ FilesFail([kind |-> "upstream", step |-> files[fidx].fail])
                /\ UNCHANGED <<fidx, head, headSet, frows, fnote>>
           ELSE IF r.mismatch
           THEN /\ FilesFail([kind |-> "HeaderMismatchErr", Original |-> head,
                              Mismatch |-> r.record])
                /\ UNCHANGED <<fidx, head, headSet, frows, fnote>>
           ELSE /\ frows' = r.rows
                /\ head' = r.head
                /\ headSet' = r.headSet
                /\ fnote' = [origin |-> r.origin, compared |-> r.compared,
                             dateRow |-> r.dateRow]
                /\ fidx' = fidx + 1
                /\ fpc' = "open"
                /\ UNCHANGED <<pc, last>>
    /\ UNCHANGED <<heap, d, got, held, nops, files, handles>>
    /\ UNCHANGED sysVars

\* the load returned nil: the constructor runs the caller's options and returns
FilesLoaded ==
    /\ fpc = "open"
    /\ fidx > Len(files)
    /\ LET w == RunOpts(Tail(last.order),
                        [Columns |-> <<>>, Rows |-> NewRefs(<<>>, frows),
                         CleanerFunc |-> d.CleanerFunc, heap |-> frows,
                         status |-> "ok", err |-> NoErr])
       IN  /\ last' = [last EXCEPT !.outcome = w.status, !.err = w.err]
           /\ CASE w.status = "ok" ->
                     /\ pc' = "ready"
                     /\ Commit(w.heap,
                               [Columns |-> w.Columns, Rows |-> w.Rows,
                                CleanerFunc |-> w.CleanerFunc], NoGet, <<>>)
                [] w.status = "error" ->
                     /\ pc' = "failed"
                     /\ UNCHANGED <<heap, d, got, held>>
                [] OTHER ->
                     /\ pc' = "panicked"
                     /\ UNCHANGED <<heap, d, got, held>>
    /\ fpc' = "done"
    /\ UNCHANGED <<nops, files, fidx, head, headSet, handles, frows, fnote>>
    /\ UNCHANGED sysVars

NextFiles ==
    \/ NewDataframeFromFiles
    \/ FileOpen
    \/ FileRead
    \/ FilesLoaded

SpecFiles == Init /\ [][NextFiles]_vars

(***************************************************************************)
(* The two constructors side by side.                                      *)
(***************************************************************************)
NextConstructors ==
    \/ NextBuild
    \/ NextFiles

SpecConstructors == Init /\ [][NextConstructors]_vars

(***************************************************************************)
(* Claims about the dataset core.                                          *)
(***************************************************************************)
Rows(h, ds) == RowValues(h, ds.Rows)

NonEmptyRows(h, ds) == \A k \in 1..Len(ds.Rows) : Len(h[ds.Rows[k]]) # 0

\* rows without the closed span lo..hi (0-based positions)
WithoutSpan(rows, lo, hi) == SubSeq(rows, 1, lo) \o SubSeq(rows, hi + 2, Len(rows))

\* C1: on a dataset of n non-empty rows, Drop with a non-empty list of indices
\* within 0..n-1 removes exactly the rows at positions min..max inclusive: the
\* row count decreases by max-min+1 and the other rows keep their order.
C1_DropRemovesClosedSpan ==
    [][ ( /\ pc = "ready"
          /\ last'.op = "Drop"
          /\ last'.i # {}
          /\ last'.i \subseteq 0..(Len(d.Rows) - 1)
          /\ NonEmptyRows(heap, d) )
        => ( /\ last'.outcome = "ok"
             /\ Len(d'.Rows) = Len(d.Rows) - (MaxOf(last'.i) - MinOf(last'.i) + 1)
             /\ Rows(heap', d') = WithoutSpan(Rows(heap, d), MinOf(last'.i), MaxOf(last'.i)) )
      ]_vars

InHeader(name, hd) == \E j \in 1..Len(hd) : hd[j] = name

\* 0-based index of the first name of header1 that does not occur in header2
FirstMissing(header1, header2) ==
    (CHOOSE i \in 1..Len(header1) :
        /\ ~InHeader(header1[i], header2)
        /\ \A k \in 1..(i - 1) : InHeader(header1[k], header2)) - 1

\* C2: when the headers have the same length and some name of the receiver's
\* header does not occur in the candidate's, Append returns an
\* ErrIncompatibleDataframes error naming the index of the first such name and
\* leaves the receiver's rows unchanged, whatever the position of that name.
C2_AppendReportsFirstMissingColumn ==
    [][ ( /\ pc = "ready"
          /\ last'.op = "Append"
          /\ last'.outcome # "panic"
          /\ Len(last'.header) = Len(Header(d.Columns))
          /\ \E i \in 1..Len(d.Columns) : ~InHeader(Header(d.Columns)[i], last'.header) )
        => ( /\ last'.outcome = "error"
             /\ last'.err.kind = "ErrIncompatibleDataframes"
             /\ last'.err.cause = "mismatch"
             /\ last'.err.idx = FirstMissing(Header(d.Columns), last'.header)
             /\ Rows(heap', d') = Rows(heap, d) )
      ]_vars

\* C3: once columns are finalized, every row of the dataset has exactly as many
\* cells as the dataset has columns, in every state reachable from a
\* constructor by SetRecord, Drop and Append.
C3_RowWidthEqualsColumnCount ==
    (pc = "ready" /\ Len(d.Columns) > 0)
        => \A k \in 1..Len(d.Rows) : Len(heap[d.Rows[k]]) = Len(d.Columns)

\* C4: no call to a public operation of the dataset core ends in a runtime
\* panic; every failure is a returned error.
C4_NoPanic == pc # "panicked"

\* C7: a dataset built with a nil normalizer behaves like one built with the
\* identity: Append with a compatible header completes normally and appends
\* every non-empty candidate row unchanged.
C7_NilNormalizerIsIdentity ==
    [][ ( /\ pc = "ready"
          /\ d.CleanerFunc = "nil"
          /\ last'.op = "Append"
          /\ last'.v = 0 )
        => ( /\ last'.outcome = "ok"
             /\ Rows(heap', d') =
                    Rows(heap, d) \o SelectSeq(last'.rows, LAMBDA r : Len(r) # 0) )
      ]_vars

\* each column's ordinal is its 0-based position, and indexes a cell of every row
OrdinalsArePositions(h, ds) ==
    /\ \A i \in 1..Len(ds.Columns) : ds.Columns[i].idx = i - 1
    /\ \A i, j \in 1..Len(ds.Columns) : i # j => ds.Columns[i].idx # ds.Columns[j].idx
    /\ \A i \in 1..Len(ds.Columns) : \A k \in 1..Len(ds.Rows) :
            ds.Columns[i].idx < Len(h[ds.Rows[k]])

\* C9: in every dataset obtainable through the public API (a constructor with
\* any finalize options, and every dataset returned by Get), each column's
\* ordinal equals its 0-based position in the column list, ordinals are
\* pairwise distinct, and the ordinal is a valid index into every row.
C9_OrdinalsArePositions ==
    /\ pc = "ready" => OrdinalsArePositions(heap, d)
    /\ (pc = "ready" /\ last.op = "Get" /\ last.outcome = "ok")
            => OrdinalsArePositions(heap, got)

\* C10: a dataset shares no row storage with a caller-held record or another
\* dataset: a cell written in place in a record the caller holds (the row of
\* the dataset Get returned, a candidate row passed to Append, the record
\* passed to SetRecord) changes no cell of the dataset.
C10_NoSharedRowStorage ==
    [][ (pc = "ready" /\ last'.op = "Poke") => Rows(heap', d') = Rows(heap, d) ]_vars

(***************************************************************************)
(* Claims about Get, Append and SetRecord.                                 *)
(***************************************************************************)
\* every requested name equals some column name when case is ignored
EveryNameMatches(hd, columns) ==
    \A k \in 1..Len(columns) : \E j \in 1..Len(hd) : ToLower(columns[k]) = ToLower(hd[j])

\* the number of columns that some requested name equals when case is ignored
MatchCount(hd, columns) ==
    Cardinality({j \in 1..Len(hd) :
                    \E k \in 1..Len(columns) : ToLower(columns[k]) = ToLower(hd[j])})

ColumnsNotFound(hd, columns) ==
    [kind |-> "ColumnsNotFoundErr", Available |-> hd, Required |-> columns]

Compatible(header1, header2) ==
    /\ Len(header1) = Len(header2)
    /\ \A i \in 1..Len(header1) : InHeader(header1[i], header2)

\* the receiver's normalizer applied to a record; an absent normalizer
\* stands for the identity
Normalized(kind, r) == IF kind = "cleanRecord" THEN cleanRecord(r) ELSE r

\* C15: when the headers are compatible, Append keeps the receiver's rows as
\* a prefix and appends after them, in candidate order, normalizer(r) for
\* exactly the candidate rows r whose normalizer(r) is non-empty; the
\* candidate's rows and the column list are unchanged and the call returns
\* the receiver without error.
C15_AppendAddsNormalizedRows ==
    [][ ( /\ pc = "ready"
          /\ last'.op = "Append"
          /\ Compatible(Header(d.Columns), last'.header) )
        => ( /\ last'.outcome = "ok"
             /\ pc' = "ready"
             /\ Rows(heap', d') =
                    Rows(heap, d) \o
                    SelectSeq([k \in 1..Len(last'.rows) |->
                                    Normalized(d.CleanerFunc, last'.rows[k])],
                              LAMBDA r : Len(r) # 0)
             /\ RowValues(heap', held') = last'.rows
             /\ d'.Columns = d.Columns
             /\ d'.CleanerFunc = d.CleanerFunc )
      ]_vars

\* the position of the column named c in header hd (the first one)
PositionOf(c, hd) == CHOOSE j \in 1..Len(hd) : hd[j] = c /\ \A k \in 1..(j - 1) : hd[k] # c

\* C28: after a successful Append (identity normalizer) of a candidate whose
\* header holds the receiver's column names in a different order, every
\* appended row holds, at the receiver's position of each column name c, the
\* cell the candidate row held under the candidate's column c.
C28_AppendKeepsNameBinding ==
    [][ ( /\ pc = "ready"
          /\ last'.op = "Append"
          /\ last'.outcome = "ok"
          /\ d.CleanerFunc = "identity"
          /\ Compatible(Header(d.Columns), last'.header)
          /\ last'.header # Header(d.Columns)
          /\ \A k \in 1..Len(last'.rows) : Len(last'.rows[k]) = Len(last'.header) )
        => ( /\ Len(d'.Rows) = Len(d.Rows) + Len(last'.rows)
             /\ \A k \in 1..Len(last'.rows) :
                  \A i \in 1..Len(d.Columns) :
                     Rows(heap', d')[Len(d.Rows) + k][i] =
                        last'.rows[k][PositionOf(Header(d.Columns)[i], last'.header)] )
      ]_vars

\* the rows of a file after its header-equivalent row, as read and normalized
LaterRows(kind, rows) ==
    LET k == HeaderPos(rows)
        later == SubSeq(rows, k + 1, Len(rows))
    IN  [i \in 1..Len(later) |-> Normalized(kind, CellsOf(later[i]))]

\* C29: reading a file after the first consumes its header-equivalent row
\* (the first row whose first cell is not empty) together with the rows
\* before it, whether or not a header is established, and appends in file
\* order exactly the later rows whose normalized form is not empty; a file
\* without such a row adds nothing.
C29_LaterFilesDropHeaderRow ==
    [][ ( /\ fpc = "read"
          /\ fidx > 1
          /\ fpc' = "open" )
        => ( /\ fidx' = fidx + 1
             /\ frows' =
                  IF HeaderPos(files[fidx].rows) = 0
                  THEN frows
                  ELSE frows \o SelectSeq(LaterRows(d.CleanerFunc, files[fidx].rows),
                                          LAMBDA r : Len(r) # 0) )
      ]_vars

\* two files with the same rows under an established header were read: the
\* second one was compared and gave every row but its header row
C29_Witness ==
    /\ fpc = "open"
    /\ fidx = 3
    /\ files[2].rows = files[1].rows
    /\ headSet
    /\ 2 \in fnote.compared
    /\ Len(SelectSeq(fnote.origin, LAMBDA f : f = 2)) = Len(files[2].rows) - 1
    /\ Len(SelectSeq(fnote.origin, LAMBDA f : f = 1)) = Len(files[1].rows)

\* a second file was read while no header was established, and its first
\* row is not among the rows it gave
C29_WitnessNoHeader ==
    /\ fpc = "open"
    /\ fidx = 3
    /\ ~headSet
    /\ Len(SelectSeq(fnote.origin, LAMBDA f : f = 2)) = Len(files[2].rows) - 1

\* a goroutine is between the Lock and the Unlock of an UpdateConfig
Updating == \E p \in Goroutines : logger.g[p].at \in {"slogger", "config", "unlock"}

\* C26: a log call writes its record to the outputs of the most recently
\* applied configuration exactly when the record's level is at least that
\* configuration's level, and to no writer otherwise; it runs while no
\* UpdateConfig is between its Lock and its Unlock, so the slog.Logger it
\* uses is the one built from that configuration.
C26_LogsAtAppliedLevel ==
    [][ \A p \in Goroutines :
          ( /\ logger.state = "live"
            /\ logger.g[p].at = "log"
            /\ logger'.g[p].at = "runlock" )
          => ( /\ last'.op = "Logger.Log"
               /\ last'.written =
                    IF MethodLevel(logger.g[p].method) >= getLevelFromString(logger.config.Level)
                    THEN HandlerWriters(logger.config)
                    ELSE {}
               /\ ~Updating
               /\ logger.slogger = NewSlogger(logger.config) )
      ]_vars

\* a logger was updated to level debug with two outputs, and a Debug call
\* was then written to both while the other goroutine was logging
C26_Witness ==
    /\ logger.state = "live"
    /\ logger.updated
    /\ logger.config.Level = "debug"
    /\ logger.config.Output = "buf"
    /\ last.op = "Logger.Log"
    /\ last.method = "Debug"
    /\ last.written = {"buf", "aux"}
    /\ \E p \in Goroutines : p # last.goroutine /\ logger.g[p].at = "log"

\* the paths a Filter call c is to return: for every registered location,
\* each file matching the pattern, joined with the location, and with a
\* maximum age only the files modified later than now minus that age
ExpectedMatches(c) ==
    UNION { { PathJoin(loc, c.fsys[loc][i].name) :
                i \in { k \in 1..Len(c.fsys[loc]) :
                          /\ Match(c.pattern, c.fsys[loc][k].name)
                          /\ c.maxAge # 0 => c.fsys[loc][k].mtime > c.now - c.maxAge } } :
            loc \in c.dir }

ReturnedMatches(c) == {c.matches[i] : i \in 1..Len(c.matches)}

\* the call c found the filter, the directories and the clock as the call b did
SameSetting(c, b) ==
    /\ c.pattern = b.pattern
    /\ c.maxAge = b.maxAge
    /\ c.dir = b.dir
    /\ c.fsys = b.fsys
    /\ c.now = b.now

\* C27: Filter returns ErrNoDirsProvided and no matches when no location is
\* registered; otherwise it returns without error, once each, the matching
\* files of every registered location joined with the location's path,
\* restricted under a maximum age to the files modified later than now minus
\* that age (so a recent file is returned with and without the age filter);
\* a further call in the same setting returns the same paths and no more.
C27_FilterReturnsMatchesOfEveryLocation ==
    last.op = "FileFilter.Filter"
        => /\ last.dir = {}
              => /\ last.err = ErrNoDirsProvided
                 /\ last.isNil
           /\ last.dir # {}
              => /\ last.outcome = "ok"
                 /\ ReturnedMatches(last) = ExpectedMatches(last)
                 /\ Len(last.matches) = Cardinality(ExpectedMatches(last))
           /\ ( /\ last.before.op = "FileFilter.Filter"
                /\ SameSetting(last, last.before) )
              => /\ ReturnedMatches(last) = ReturnedMatches(last.before)
                 /\ Len(last.matches) = Len(last.before.matches)
                 /\ last.outcome = last.before.outcome

\* C16: Append of a candidate whose header length differs from the
\* receiver's returns an ErrIncompatibleDataframes error reporting the length
\* mismatch, appends nothing and leaves the receiver's rows and columns
\* unchanged.
C16_AppendLengthMismatch ==
    [][ ( /\ pc = "ready"
          /\ last'.op = "Append"
          /\ Len(last'.header) # Len(Header(d.Columns)) )
        => ( /\ last'.outcome = "error"
             /\ pc' = "ready"
             /\ last'.err.kind = "ErrIncompatibleDataframes"
             /\ last'.err.cause = "length"
             /\ Rows(heap', d') = Rows(heap, d)
             /\ d' = d )
      ]_vars

\* an Append of a candidate with rows and a header of another length, on a
\* dataset with columns and rows, was refused for the length
C16_Witness ==
    /\ pc = "ready"
    /\ last.op = "Append"
    /\ last.outcome = "error"
    /\ last.err.cause = "length"
    /\ Len(last.header) # Len(d.Columns)
    /\ Len(last.rows) > 0
    /\ Len(d.Columns) > 0
    /\ Len(d.Rows) > 0

\* C17: SetRecord(rowIndex, record) returns a bad-row-index error for every
\* rowIndex outside 0..len(rows)-1, negative values included, and a bad-row
\* error when rowIndex is valid but len(record) differs from len(Header()),
\* leaving the dataset unchanged in both cases; otherwise it replaces exactly
\* the row at rowIndex and leaves the other rows, the row count and the
\* columns unchanged.
C17_SetRecordChecksIndexAndShape ==
    [][ (pc = "ready" /\ last'.op = "SetRecord")
        => IF last'.row < 0 \/ last'.row > Len(d.Rows) - 1
           THEN /\ last'.outcome = "error"
                /\ last'.err.kind = "ErrBadRowIdx"
                /\ Rows(heap', d') = Rows(heap, d)
                /\ d'.Columns = d.Columns
           ELSE IF Len(last'.record) # Len(Header(d.Columns))
           THEN /\ last'.outcome = "error"
                /\ last'.err.kind = "ErrBadRow"
                /\ Rows(heap', d') = Rows(heap, d)
                /\ d'.Columns = d.Columns
           ELSE /\ last'.outcome = "ok"
                /\ Rows(heap', d') = [Rows(heap, d) EXCEPT ![last'.row + 1] = last'.record]
                /\ d'.Columns = d.Columns
      ]_vars


(***************************************************************************)
(* Claims about DfRowsAsStructList.                                        *)
(***************************************************************************)
\* the field is tagged with the name of a column of the header
Bound(field, cols) ==
    /\ Len(field.tag) # 0
    /\ ToLower(field.tag) # <<"-">>
    /\ InHeader(ToLower(field.tag), Header(cols))

\* the cell of a row under the column a bound field names
BoundCell(field, cols, row) == row[FirstColumn(cols, ToLower(field.tag))]

HasBoundCell(field, cols, row) == FirstColumn(cols, ToLower(field.tag)) <= Len(row)

\* the number written in a cell, read as the field's kind requires
Written(kind, cell) ==
    CASE kind \in IntKinds -> ParseInt(cell)
      [] kind \in UintKinds -> ParseUint(cell)
      [] OTHER -> ParseFloat(cell)

\* C12: for a tagged field of any signed or unsigned integer kind, of every
\* bit width, whose column is in the header, a call that succeeds has set the
\* field of every record to exactly the base-10 value written in the row's
\* cell: never zero for a non-zero cell, never a wrapped value, and never a
\* success on a cell that is no numeral.
C12_IntegerFieldsHoldCellValue ==
    (last.op = "DfRowsAsStructList" /\ last.outcome = "ok")
        => \A i \in 1..Len(last.sType) :
              ( /\ last.sType[i].kind \in IntKinds \cup UintKinds
                /\ Bound(last.sType[i], d.Columns) )
              => \A idx \in 1..Len(d.Rows) :
                    HasBoundCell(last.sType[i], d.Columns, heap[d.Rows[idx]])
                    => LET w == Written(last.sType[i].kind,
                                        BoundCell(last.sType[i], d.Columns, heap[d.Rows[idx]]))
                       IN  /\ w.ok
                           /\ last.result[idx][i].num = w.v

\* some cell under a column bound to a float or integer field is no numeral
SomeNumericCellFails(h, ds, sType) ==
    \E i \in 1..Len(sType) : \E idx \in 1..Len(ds.Rows) :
        /\ sType[i].kind \in FloatKinds \cup IntKinds \cup UintKinds
        /\ Bound(sType[i], ds.Columns)
        /\ HasBoundCell(sType[i], ds.Columns, h[ds.Rows[idx]])
        /\ ~Written(sType[i].kind, BoundCell(sType[i], ds.Columns, h[ds.Rows[idx]])).ok

\* C13: if any cell under a column bound to a float, signed-integer or
\* unsigned-integer field fails to parse in any row, a call that returns,
\* returns a non-nil error and a nil result, and the dataset is unchanged.
C13_AllOrNothing ==
    [][ ( /\ pc = "ready"
          /\ last'.op = "DfRowsAsStructList"
          /\ last'.outcome # "panic"
          /\ SomeNumericCellFails(heap, d, last'.sType) )
        => ( /\ last'.outcome = "error"
             /\ last'.err # NoErr
             /\ last'.result = <<>>
             /\ d' = d
             /\ heap' = heap )
      ]_vars

\* C14: on success there is exactly one record per row, in row order; in
\* record idx each string field whose lower-cased tag names a column holds
\* the cell of row idx under that column (the first so named) verbatim, and
\* every field whose tag is empty, is "-" or names no column is zero.
C14_StringFieldsVerbatimOthersZero ==
    (last.op = "DfRowsAsStructList" /\ last.outcome = "ok")
        => /\ Len(last.result) = Len(d.Rows)
           /\ \A idx \in 1..Len(d.Rows) :
                /\ Len(last.result[idx]) = Len(last.sType)
                /\ \A i \in 1..Len(last.sType) :
                    /\ ( /\ last.sType[i].kind \in StringKinds
                         /\ Bound(last.sType[i], d.Columns) )
                       => /\ HasBoundCell(last.sType[i], d.Columns, heap[d.Rows[idx]])
                          /\ last.result[idx][i].str =
                                BoundCell(last.sType[i], d.Columns, heap[d.Rows[idx]])
                    /\ ~Bound(last.sType[i], d.Columns) => last.result[idx][i] = Zero

\* a dataset of two rows converted to records whose first field kept its
\* zero value and whose string field, tagged in upper case, holds two cells
C14_Witness ==
    /\ last.op = "DfRowsAsStructList"
    /\ last.outcome = "ok"
    /\ Len(d.Rows) = 2
    /\ Len(last.sType) = 2
    /\ ~Bound(last.sType[1], d.Columns)
    /\ last.sType[2].tag = <<"S">>
    /\ last.result[1][2].str = <<"x">>
    /\ last.result[2][2].str = <<"y">>
    /\ last.result[1][1] = Zero


(***************************************************************************)
(* Claims about NewDataframeFromData and the finalize options.             *)
(***************************************************************************)
\* the strings of q joined by sep
RECURSIVE Join(_, _)
Join(q, sep) ==
    IF Len(q) = 0 THEN <<>>
    ELSE IF Len(q) = 1 THEN q[1]
    ELSE q[1] \o sep \o Join(Tail(q), sep)

\* C18: with no finalize option NewDataframeFromData never fails; it yields
\* one row per record of the data split on the record separator, in order,
\* each row the record's cells split on the value separator and passed
\* through the normalizer when one is given, and defines no column.  Without
\* a normalizer that changes cells, joining the cells and then the rows with
\* the separators gives back the data.
C18_LoadYieldsOneRowPerRecord ==
    (last.op = "NewDataframeFromData" /\ Len(last.opts) = 0)
        => /\ pc \notin {"failed", "panicked"}
           /\ pc = "ready"
              => LET records == Split(last.b.Data, last.b.LineSep)
                 IN  /\ last.outcome = "ok"
                     /\ Len(d.Columns) = 0
                     /\ Len(d.Rows) = Len(records)
                     /\ \A i \in 1..Len(records) :
                            heap[d.Rows[i]] =
                                Normalized(last.cleaner, Split(records[i], last.b.ValSep))
                     /\ last.cleaner # "cleanRecord"
                        => Join([i \in 1..Len(d.Rows) |-> Join(heap[d.Rows[i]], last.b.ValSep)],
                                last.b.LineSep) = last.b.Data

\* data of two records, one of them normalized to an empty row, loaded
\* without a finalize option
C18_Witness ==
    /\ pc = "ready"
    /\ last.op = "NewDataframeFromData"
    /\ Len(last.opts) = 0
    /\ last.cleaner = "cleanRecord"
    /\ Len(d.Rows) = 2
    /\ Len(heap[d.Rows[1]]) = 0
    /\ Len(heap[d.Rows[2]]) = 2

\* the names a finalize derives from a list of strings
NormalizedNames(strs) == [i \in 1..Len(strs) |-> ToLower(RemoveSpaces(strs[i]))]

C21_ProvidedColumnsLengthMismatch ==
    [][ ( /\ pc = "building"
          /\ Len(last.order) > 0
          /\ Head(last.order).kind = "provided"
          /\ Len(d.Rows) >= 1
          /\ Len(Head(last.order).h) # Len(heap[d.Rows[1]]) )
        => ( /\ pc' = "failed"
             /\ last'.outcome = "error"
             /\ last'.err = [kind |-> "HeaderInterpretErr",
                             Provided |-> Head(last.order).h,
                             Found |-> heap[d.Rows[1]]]
             /\ d'.Columns = d.Columns
             /\ Rows(heap', d') = Rows(heap, d) )
      ]_vars

\* the constructor failed on a two-name list given for a first row of one
\* cell, before any column existed
C21_Witness ==
    /\ pc = "failed"
    /\ last.op = "NewDataframeFromData"
    /\ last.step = "provided"
    /\ last.err.kind = "HeaderInterpretErr"
    /\ Len(last.err.Provided) = 2
    /\ Len(last.err.Found) = 1
    /\ Len(d.Columns) = 0

\* the cells of a row under the columns some name matches, in column order
CellsUnder(cols, row, names) ==
    LET pos == {j \in 1..Len(cols) :
                    \E k \in 1..Len(names) : ToLower(names[k]) = ToLower(cols[j].name)}
        ord == [j \in 1..Len(cols) |-> Cardinality({i \in pos : i <= j})]
    IN  [n \in 1..Cardinality(pos) |->
            LET j == CHOOSE j \in pos : ord[j] = n
            IN  [col |-> cols[j], has |-> cols[j].idx < Len(row),
                 cell |-> IF cols[j].idx < Len(row) THEN row[cols[j].idx + 1] ELSE <<>>]]

\* C22 (as stated): Get(row, names...) on a row of the dataset, with at least
\* one name and every name matching a column, returns a new one-row dataset
\* whose columns are exactly the matching columns and whose row holds exactly
\* their cells of the given row, both in the order of the source's column
\* list whatever the order of the names; the source dataset is unchanged.
C22_GetProjectsInColumnOrder ==
    [][ ( /\ pc = "ready"
          /\ last'.op = "Get"
          /\ Len(last'.columns) > 0
          /\ last'.row \in 0..(Len(d.Rows) - 1)
          /\ EveryNameMatches(Header(d.Columns), last'.columns) )
        => LET under == CellsUnder(d.Columns, heap[d.Rows[last'.row + 1]], last'.columns)
           IN  /\ last'.outcome = "ok"
               /\ got'.Columns = [n \in 1..Len(under) |-> under[n].col]
               /\ Len(got'.Rows) = 1
               /\ \A n \in 1..Len(under) : under[n].has
               /\ heap'[got'.Rows[1]] = [n \in 1..Len(under) |-> under[n].cell]
               /\ got'.Rows[1] \notin {d'.Rows[k] : k \in 1..Len(d'.Rows)}
               /\ Rows(heap', d') = Rows(heap, d)
               /\ d'.Columns = d.Columns
      ]_vars


\* the rows withRecordsFromData loads for a ByteDefinition
LoadedRows(b, cleaner) ==
    LET records == Split(b.Data, b.LineSep)
    IN  [i \in 1..Len(records) |-> Normalized(cleaner, Split(records[i], b.ValSep))]

\* the number of interpreted-columns options among opts
Interpreted(opts) == Cardinality({i \in 1..Len(opts) : opts[i].kind = "interpreted"})

\* NewDataframeFromData: the load is the step taken first, and a caller's
\* option finds the loaded rows, less one row per interpreted finalize run
LoadRunsFirstFromData ==
    (pc = "building" /\ Len(last.order) > 0)
        => /\ (Head(last.order).kind = "data") <=> (last.step = "none")
           /\ last.step # "none"
              => LET ran == SubSeq(Reverse(last.opts), 1, Len(last.opts) - Len(last.order))
                     loaded == LoadedRows(last.b, last.cleaner)
                 IN  Rows(heap, d) = SubSeq(loaded, Interpreted(ran) + 1, Len(loaded))

\* NewDataframeFromFiles: no column exists before every file is loaded, and
\* the dataset returned holds the loaded rows less one per interpreted finalize
LoadRunsFirstFromFiles ==
    last.op = "NewDataframeFromFiles"
        => /\ (fpc # "done" => Len(d.Columns) = 0)
           /\ pc = "ready"
              => /\ fidx > Len(files)
                 /\ Rows(heap, d) = SubSeq(frows, Interpreted(last.opts) + 1, Len(frows))

\* a step that returns an error ends the call: the error is returned with no
\* dataset, the step has changed nothing, and no step follows
ErrorEndsConstruction ==
    /\ pc # "failed"
    /\ pc' = "failed"
       => /\ last'.outcome = "error"
          /\ last'.err # NoErr
          /\ d'.Columns = d.Columns
          /\ Rows(heap', d') = Rows(heap, d)
          /\ frows' = frows

\* C23: in both constructors the row-loading step runs before every option
\* the caller supplied, whatever their number and order, so that a finalize
\* option operates on the fully loaded rows; if a step returns an error the
\* remaining steps are not run and the constructor returns no dataset and
\* that error.
C23_LoadFirstAndStopAtError ==
    /\ [](LoadRunsFirstFromData /\ LoadRunsFirstFromFiles)
    /\ [][ErrorEndsConstruction]_vars

\* a constructor given two options loaded the rows, ran one option and
\* failed in the next, which is still first in the list of steps to run
C23_Witness ==
    /\ pc = "failed"
    /\ last.op = "NewDataframeFromData"
    /\ Len(last.opts) = 2
    /\ Len(last.order) = 1
    /\ last.step = "provided"
    /\ Len(d.Columns) > 0
    /\ Len(d.Rows) > 0


(***************************************************************************)
(* Claims about SimpleStore.                                               *)
(***************************************************************************)
StoreCall == last'.op \in {"SimpleStore.Add", "SimpleStore.Get",
                           "SimpleStore.Update", "SimpleStore.Delete"}

\* the store differs from before at key k only, where it now holds e
OnlyKeyChanged(k, e) ==
    /\ store'[k] = e
    /\ \A j \in Keys \ {k} : store'[j] = store[j]

\* what each call does, given whether its key is in the store
StoreStep ==
    StoreCall =>
        CASE last'.op = "SimpleStore.Add" ->
                IF store[last'.k].ok
                THEN last'.err.kind = "ErrNoOverwrite" /\ store' = store
                ELSE last'.outcome = "ok" /\ OnlyKeyChanged(last'.k, Present(last'.i))
          [] last'.op = "SimpleStore.Update" ->
                IF ~store[last'.k].ok
                THEN last'.err.kind = "ErrNoOrderFound" /\ store' = store
                ELSE last'.outcome = "ok" /\ OnlyKeyChanged(last'.k, Present(last'.i))
          [] last'.op = "SimpleStore.Delete" ->
                IF ~store[last'.k].ok
                THEN last'.err.kind = "ErrNoOrderFound" /\ store' = store
                ELSE last'.outcome = "ok" /\ OnlyKeyChanged(last'.k, Absent)
          [] OTHER ->
                /\ store' = store
                /\ IF ~store[last'.k].ok
                   THEN last'.err.kind = "ErrNoOrderFound"
                   ELSE last'.outcome = "ok" /\ last'.i = store[last'.k].v

\* a call on the key of the call before it
StoreFollowUp ==
    (StoreCall /\ last.op \in {"SimpleStore.Add", "SimpleStore.Update", "SimpleStore.Delete"}
        /\ last.outcome = "ok" /\ last'.k = last.k)
    => IF last.op = "SimpleStore.Delete"
       THEN /\ last'.op = "SimpleStore.Get" => last'.outcome = "error"
            /\ last'.op = "SimpleStore.Add" => last'.outcome = "ok"
       ELSE last'.op = "SimpleStore.Get" => (last'.outcome = "ok" /\ last'.i = last.i)

\* C25: in every state reachable by Add, Update, Delete and Get, Add on a key
\* already present returns ErrNoOverwrite, and Update, Delete and Get on an
\* absent key return ErrNoOrderFound, each leaving the store unchanged; a
\* successful Delete removes the key, so that a following Get fails and a
\* following Add succeeds; otherwise Get(k) returns the value of the most
\* recent successful Add or Update of k, no call changing another key.
C25_SimpleStoreContract == [][StoreStep /\ StoreFollowUp]_vars

\* an Update of an absent key was refused right after the key was deleted
C25_Witness ==
    /\ last.op = "SimpleStore.Update"
    /\ last.outcome = "error"
    /\ last.err.kind = "ErrNoOrderFound"
    /\ ~store[last.k].ok
    /\ \E j \in Keys : store[j].ok


(***************************************************************************)
(* Claims about Database.                                                  *)
(***************************************************************************)
\* some field of the configuration is empty or nil
SomeFieldEmpty(c) ==
    \/ Len(c.Driver) = 0
    \/ Len(c.Name) = 0
    \/ Len(c.Address) = 0
    \/ Len(c.CredentialsName) = 0
    \/ Len(c.CredentialsPassword) = 0
    \/ c.ConnectionStringTemplate = "nil"

\* C24: ValidateConfig returns ErrBadConfig whenever a field of the
\* DatabaseConfig (Driver, Name, Address, Credentials.Name,
\* Credentials.Password, ConnectionStringTemplate) is empty or nil, and nil
\* only when all are filled; NewDatabase then returns that error and no
\* Database, before it opens any connection.
C24_ValidateConfigRequiresEveryField ==
    last.op = "NewDatabase"
        => /\ (ValidateConfig(last.c) = ErrBadConfig) <=> SomeFieldEmpty(last.c)
           /\ SomeFieldEmpty(last.c)
              => /\ last.err = ErrBadConfig
                 /\ ~last.opened
                 /\ db.state = "none"

\* C30: the statement a call of ExecuteConstructor executes is the one
\* prepared from the query text its own constructor returns; a statement
\* taken from the cache was prepared by a constructor of the same type, and a
\* type that has a cached statement is not prepared again.
C30_ExecutesOwnStatement ==
    [][ last'.op = "ExecuteConstructor"
        => /\ last'.executed.ok
              => /\ last'.executed.text = last'.qc.text
                 /\ last'.executed.type = last'.qc.type
           /\ (\E k \in StmtKeys : db.prepStmts[k].ok /\ db.prepStmts[k].type = last'.qc.type)
              => ~last'.prepared
      ]_vars


(***************************************************************************)
(* Claims about NewDataframeFromFiles.                                     *)
(***************************************************************************)
\* the header-equivalent row of the file being read, normalized
NormalizedHeaderRow ==
    CleanerFunc(d.CleanerFunc, CellsOf(files[fidx].rows[HeaderPos(files[fidx].rows)]))

\* C5: once a header has been established (the first normalized row holding
\* a "date" cell, observed in fnote.dateRow), a later file whose
\* header-equivalent row, normalized, differs from it makes the call return
\* HeaderMismatchErr{Original: that header, Mismatch: the row} and no dataset.
C5_LaterHeaderMismatchIsReported ==
    [][ ( /\ fpc = "read"
          /\ fidx > 1
          /\ files[fidx].fail = "none"
          /\ headSet
          /\ HeaderPos(files[fidx].rows) # 0
          /\ NormalizedHeaderRow # fnote.dateRow )
        => ( /\ pc' = "failed"
             /\ last'.err = [kind |-> "HeaderMismatchErr", Original |-> fnote.dateRow,
                             Mismatch |-> NormalizedHeaderRow] )
      ]_vars

\* C6: no row of a file after the first is appended to the dataset unless
\* that file's header-equivalent row was compared against an established
\* header and found equal.
C6_RowsAppendedOnlyAfterHeaderCheck ==
    \A k \in 1..Len(frows) :
        fnote.origin[k] > 1 => fnote.origin[k] \in fnote.compared

\* C8: every source opened for a file is released before the next file is
\* opened, and none remains open when the call returns.
C8_HandlesReleased ==
    (fpc = "open" \/ fpc = "done") => handles = {}

====
